---- MODULE Spec2Model ----
(***************************************************************************)
(* A model of the Pyhandling / act combinator library.                     *)
(*                                                                         *)
(* Python objects are modelled as records of one shape,                    *)
(*   [type, id, handlers],                                                 *)
(* so that callables, tuples and chains can sit in the same collection:    *)
(*   type = "fn"           a plain callable, named by id                   *)
(*   type = "tuple"        an iterable whose items are in handlers         *)
(*   type = "ActionChain"  an object whose type is exactly ActionChain     *)
(*   type = "TypeError"    the exception a call ended with                 *)
(* Chain objects live in the heap `chains`; chains[1] is the module        *)
(* constant `then`.                                                        *)
(***************************************************************************)
EXTENDS Integers, Sequences, FiniteSets, TLC

\* ---------------------------------------------------------------- bounds
NumFns == 2
MaxChains == 1
MaxHandlers == 2
MaxCalled == 3
Modulus == 3
MaxArgs == 2
MaxNumber == 3
MaxCalls == 9

\* Names not in use by the part of the library a specification exercises
\* keep this value.
Idle == <<>>

VARIABLES chains, last, tm, it, rp, br, tr, mh, cl, ob, lk, cx, mo, dp, nest

vars == <<chains, last, tm, it, rp, br, tr, mh, cl, ob, lk, cx, mo, dp, nest>>

\* ------------------------------------------------------- test callables
Fns == 1..NumFns
Values == 0..(Modulus - 1)

RECURSIVE SumOf(_)
SumOf(s) == IF s = <<>> THEN 0 ELSE Head(s) + SumOf(Tail(s))

\* The callables the chains are built from: callable number f applied to
\* the positional arguments args.  They do not commute, so the order of
\* application shows in the result.
apply(f, args) ==
    IF f = 1 THEN (SumOf(args) + 1) % Modulus
    ELSE IF f = 2 THEN (2 * SumOf(args)) % Modulus
    ELSE (SumOf(args) * SumOf(args) + f) % Modulus

Fn(i) == [type |-> "fn", id |-> i, handlers |-> <<>>]
Tuple(items) == [type |-> "tuple", id |-> 0, handlers |-> items]
Chain(hs) == [type |-> "ActionChain", id |-> 0, handlers |-> hs]
TypeError == [type |-> "TypeError", id |-> 0, handlers |-> <<>>]

\* A str of the characters chars, each a number
Str(chars) == [type |-> "str", id |-> 0, handlers |-> chars]

\* isinstance(x, Iterable)
IsIterable(x) == x.type \in {"tuple", "str"}

\* tuple(x), for an iterable: the items of a str are its characters, each a
\* str of length one
iterate(x) ==
    IF x.type = "str" THEN [i \in 1..Len(x.handlers) |-> Str(<<x.handlers[i]>>)]
    ELSE x.handlers

\* ---------------------------------------------------------- handlers.py
RECURSIVE get_collection_with_reduced_nesting(_, _)
get_collection_with_reduced_nesting(collection, number_of_reductions) ==
    IF collection = <<>> THEN <<>>
    ELSE LET item == Head(collection)
             opened ==
                 IF ~IsIterable(item) THEN <<item>>
                 ELSE IF number_of_reductions > 1
                      THEN get_collection_with_reduced_nesting(
                               iterate(item), number_of_reductions - 1)
                      ELSE iterate(item)
         IN opened \o get_collection_with_reduced_nesting(
                          Tail(collection), number_of_reductions)

get_with_aligned_chains_unaligned(handlers) == handlers

get_with_aligned_chains(handlers) ==
    get_collection_with_reduced_nesting(
        [i \in 1..Len(handlers) |->
            Tuple(IF handlers[i].type = "ActionChain"
                  THEN handlers[i].handlers
                  ELSE <<handlers[i]>>)],
        1)

\* ActionChain(*args): the first positional argument is required.
ActionChain(args) ==
    IF args = <<>> THEN TypeError
    ELSE LET opening_handler_resource == Head(args)
             handlers == Tail(args)
         IN Chain(get_with_aligned_chains(
                (IF IsIterable(opening_handler_resource)
                 THEN iterate(opening_handler_resource)
                 ELSE <<opening_handler_resource>>)
                \o handlers))

clone_with_ignoring_side(self, handlers, is_other_handlers_on_the_left) ==
    ActionChain(self.handlers \o handlers)

clone_with(self, handlers, is_other_handlers_on_the_left) ==
    LET handler_groph ==
            IF is_other_handlers_on_the_left
            THEN <<handlers, self.handlers>>
            ELSE <<self.handlers, handlers>>
    IN ActionChain(handler_groph[1] \o handler_groph[2])

__rshift__(self, action_node) == clone_with(self, <<action_node>>, FALSE)

__or__(self, action_node) == clone_with(self, <<action_node>>, FALSE)

__ror__(self, action_node) == clone_with(self, <<action_node>>, TRUE)

\* then = ActionChain(tuple())
then == chains[1]

\* Python's dispatch of `left | right`: the left operand's __or__ when it
\* is a chain, else the right operand's __ror__.
BinaryOr(left, right) ==
    IF left.type = "ActionChain" THEN __or__(left, right)
    ELSE __ror__(right, left)

\* `first |then>> second`, parsed as first | (then >> second).
Pipe(first, second) == BinaryOr(first, __rshift__(then, second))

clone_with_intermediate(self, intermediate_handler, is_on_input, is_on_output) ==
    IF self.handlers = <<>> THEN self
    ELSE ActionChain(<<Tuple(
            (IF is_on_input THEN <<intermediate_handler>> ELSE <<>>)
            \o <<Pipe(self.handlers[1],
                      ActionChain(<<Tuple(
                          get_collection_with_reduced_nesting(
                              [i \in 1..(Len(self.handlers) - 1) |->
                                  Pipe(intermediate_handler, self.handlers[i + 1])],
                              1))>>))>>
            \o (IF is_on_output THEN <<intermediate_handler>> ELSE <<>>))>>)

\* --- ActionChain.__call__
Value(v, log) == [kind |-> "value", v |-> v, log |-> log]
NameError == [kind |-> "NameError", v |-> 0, log |-> <<>>]
NoResult == [kind |-> "none", v |-> 0, log |-> <<>>]

Called(h, input) == [fn |-> h.id, input |-> input, output |-> apply(h.id, input)]

RECURSIVE reduce_reversed(_, _)
reduce_reversed(acc, handlers) ==
    IF handlers = <<>> THEN acc
    ELSE LET n == Len(handlers)
             c == Called(handlers[n], <<acc.v>>)
         IN reduce_reversed(Value(c.output, Append(acc.log, c)),
                            SubSeq(handlers, 1, n - 1))

\* functools.reduce(lambda resource, handler: handler(resource), ...): the
\* accumulator carries the resource and the calls made so far.
RECURSIVE reduce(_, _)
reduce(acc, handlers) ==
    IF handlers = <<>> THEN acc
    ELSE LET c == Called(Head(handlers), <<acc.v>>)
         IN reduce(Value(c.output, Append(acc.log, c)), Tail(handlers))

__call__(self, args) ==
    IF self.handlers # <<>>
    THEN LET first == Called(self.handlers[1], args)
         IN reduce(Value(first.output, <<first>>), Tail(self.handlers))
    ELSE NameError  \* `resource` is bound only inside the lambda

\* ------------------------------------------------------ the chain machine
\* What the operation under way was applied to and what it returned: the
\* chain `made` (new, or self itself) or the exception, or the outcome `out`
\* of a call.  The caller lets go of it with Discard before the next
\* operation; a chain made stays on the heap while the heap has room for it.
Op(op, self, operands, before, made, ret, args, out) ==
    [op |-> op, self |-> self, operands |-> operands, before |-> before,
     made |-> made, ret |-> ret, args |-> args, out |-> out]

NoOp == Op("none", 0, <<>>, <<>>, Chain(<<>>), "none", <<>>, NoResult)

Operands == {Fn(f) : f \in Fns} \cup {chains[k] : k \in DOMAIN chains}

OperandSeqs(lo, hi) ==
    UNION {[1..n -> Operands] : n \in lo..hi}

ArgSeqs == UNION {[1..n -> Values] : n \in 0..MaxArgs}

HandlersOf(self) == IF self = 0 THEN <<>> ELSE chains[self].handlers

\* A constructor or clone returned `made`, or raised it.
ReturnedWith(op, self, operands, flags, made) ==
    /\ last = NoOp
    /\ last' = Op(op, self, operands, HandlersOf(self), made,
                  IF made.type = "TypeError" THEN "TypeError" ELSE "new",
                  flags, NoResult)
    /\ chains' = IF /\ made.type = "ActionChain"
                    /\ Len(chains) < MaxChains + 1
                    /\ Len(made.handlers) <= MaxHandlers
                 THEN Append(chains, made)
                 ELSE chains

Returned(op, self, operands, made) ==
    ReturnedWith(op, self, operands, <<>>, made)

ChainInit ==
    /\ chains = <<ActionChain(<<Tuple(<<>>)>>)>>
    /\ last = NoOp

\* ActionChain(h1, ..., hn)
Construct ==
    \E args \in OperandSeqs(0, 2) :
        Returned("ActionChain", 0, args, ActionChain(args))

\* ActionChain([h1, ..., hn])
ConstructOfIterable ==
    \E items \in OperandSeqs(0, 2) :
        Returned("ActionChain", 0, items, ActionChain(<<Tuple(items)>>))

CloneWith ==
    \E self \in DOMAIN chains, hs \in OperandSeqs(0, 2) :
        Returned("clone_with", self, hs, clone_with(chains[self], hs, FALSE))

CloneWithOnTheLeft ==
    \E self \in DOMAIN chains, hs \in OperandSeqs(0, 2) :
        Returned("clone_with_left", self, hs, clone_with(chains[self], hs, TRUE))

\* chain >> h
RShift ==
    \E self \in DOMAIN chains, h \in Operands :
        Returned("rshift", self, <<h>>, __rshift__(chains[self], h))

\* chain | h
Or ==
    \E self \in DOMAIN chains, h \in Operands :
        Returned("or", self, <<h>>, BinaryOr(chains[self], h))

\* h | chain, h not a chain
ROr ==
    \E self \in DOMAIN chains, f \in Fns :
        Returned("ror", self, <<Fn(f)>>, BinaryOr(Fn(f), chains[self]))

\* first |then>> second
PipeThen ==
    \E first \in Operands, second \in Operands :
        Returned("pipe", 0, <<first, second>>, Pipe(first, second))

CloneWithIntermediate ==
    \E self \in DOMAIN chains, h \in Operands, i \in BOOLEAN, o \in BOOLEAN :
        IF chains[self].handlers = <<>>
        THEN /\ last = NoOp
             /\ chains' = chains
             /\ last' = Op("clone_with_intermediate", self, <<h>>,
                           chains[self].handlers,
                           clone_with_intermediate(chains[self], h, i, o),
                           "self", <<>>, NoResult)
        ELSE ReturnedWith("clone_with_intermediate", self, <<h>>,
                          <<IF i THEN 1 ELSE 0, IF o THEN 1 ELSE 0>>,
                          clone_with_intermediate(chains[self], h, i, o))

\* The caller drops what the operation returned.
Discard ==
    /\ last # NoOp
    /\ last' = NoOp
    /\ chains' = chains

ChainNext ==
    /\ UNCHANGED <<tm, it, rp, br, tr, mh, cl, ob, lk, cx, mo, dp, nest>>
    /\ \/ Construct
       \/ ConstructOfIterable
       \/ CloneWith
       \/ CloneWithOnTheLeft
       \/ RShift
       \/ Or
       \/ ROr
       \/ PipeThen
       \/ CloneWithIntermediate
       \/ Discard

Init ==
    /\ ChainInit
    /\ tm = Idle /\ it = Idle /\ rp = Idle /\ br = Idle /\ tr = Idle /\ mh = Idle
    /\ cl = Idle /\ ob = Idle /\ lk = Idle /\ cx = Idle
    /\ mo = Idle /\ dp = Idle /\ nest = Idle

Next == ChainNext

Spec == Init /\ [][Next]_vars

\* ------------------------------------------------- properties of chains
\* The handlers a row of given handlers stands for: a chain stands for its
\* own handlers, anything else for itself.
RECURSIVE Expanded(_)
Expanded(given) ==
    IF given = <<>> THEN <<>>
    ELSE (IF Head(given).type = "ActionChain"
          THEN Head(given).handlers
          ELSE <<Head(given)>>) \o Expanded(Tail(given))

\* C3: clone_with, `chain | h` and `chain >> h` return a new chain whose
\* handlers are the chain's handlers followed by the added ones, `h | chain`
\* one whose handlers are h followed by the chain's; `f |then>> g` has the
\* handlers (f, g) and gives g(f(x)) on x, |then>> is associative in the
\* handlers it builds, no operation changes the handlers of an existing
\* chain, and `then` keeps having none.
C3_Extended ==
    /\ then.handlers = <<>>
    /\ (/\ last.op \in {"clone_with", "rshift", "or", "clone_with_left", "ror"}
        /\ last.operands # <<>>) =>
           /\ last.ret = "new"
           /\ last.made.type = "ActionChain"
           /\ chains[last.self].handlers = last.before
           /\ last.made.handlers =
                  IF last.op \in {"clone_with_left", "ror"}
                  THEN Expanded(last.operands) \o last.before
                  ELSE last.before \o Expanded(last.operands)
    /\ last.op = "pipe" =>
           LET first == last.operands[1]
               second == last.operands[2]
           IN /\ last.ret = "new"
              /\ last.made.handlers = Expanded(last.operands)
              /\ (first.type = "fn" /\ second.type = "fn") =>
                     /\ last.made.handlers = <<first, second>>
                     /\ \A x \in Values :
                            __call__(last.made, <<x>>).v
                                = apply(second.id, <<apply(first.id, <<x>>)>>)
              /\ \A h \in Operands :
                     Pipe(last.made, h).handlers
                         = Pipe(first, Pipe(second, h)).handlers

C3_ExtendingKeepsChain ==
    /\ []C3_Extended
    /\ [][\A k \in DOMAIN chains : k \in DOMAIN chains' /\ chains'[k] = chains[k]]_vars

C3_Witness ==
    /\ last.op = "ror"
    /\ Len(last.before) = 2
    /\ last.ret = "new"
    /\ Len(last.made.handlers) = 3
    /\ last.made.handlers[1].id # last.before[1].id
    /\ chains[last.self].handlers = last.before

\* What clone_with_intermediate is to build: the intermediate handler
\* before every handler but the first, and at both ends when asked.
RECURSIVE Interleaved(_, _)
Interleaved(intermediate, hs) ==
    IF hs = <<>> THEN <<>>
    ELSE Expanded(<<intermediate, Head(hs)>>) \o Interleaved(intermediate, Tail(hs))

\* C4: no chain that construction, clone_with, |, >> or
\* clone_with_intermediate can produce has among its handlers an object of
\* type ActionChain; a chain given as a handler is replaced by its own
\* handlers, in their order.
C4_NoChainAmongHandlers ==
    /\ \A k \in DOMAIN chains : \A i \in DOMAIN chains[k].handlers :
           chains[k].handlers[i].type # "ActionChain"
    /\ \A i \in DOMAIN last.made.handlers :
           last.made.handlers[i].type # "ActionChain"
    /\ (last.op = "ActionChain" /\ last.ret = "new") =>
           last.made.handlers = Expanded(last.operands)
    /\ (last.op = "clone_with_intermediate" /\ last.before # <<>>) =>
           /\ last.ret = "new"
           /\ last.made.handlers =
                  (IF last.args[1] = 1 THEN Expanded(last.operands) ELSE <<>>)
                  \o <<last.before[1]>>
                  \o Interleaved(last.operands[1], Tail(last.before))
                  \o (IF last.args[2] = 1 THEN Expanded(last.operands) ELSE <<>>)

C4_Witness ==
    /\ last.op = "clone_with_intermediate"
    /\ last.ret = "new"
    /\ Len(last.before) = 2
    /\ last.operands[1].type = "ActionChain"
    /\ Len(last.operands[1].handlers) = 2
    /\ last.args = <<1, 0>>
    /\ Len(last.made.handlers) = 6

\* ============================================================ calling chains
\* The chain called is one ActionChain has built of plain callables.
CallInit ==
    /\ \E hs \in UNION {[1..n -> {Fn(f) : f \in Fns}] : n \in 0..MaxCalled} :
           chains = <<ActionChain(<<Tuple(hs)>>)>>
    /\ last = NoOp
    /\ tm = Idle /\ it = Idle /\ rp = Idle /\ br = Idle /\ tr = Idle /\ mh = Idle
    /\ cl = Idle /\ ob = Idle /\ lk = Idle /\ cx = Idle
    /\ mo = Idle /\ dp = Idle /\ nest = Idle

Call ==
    \E self \in DOMAIN chains, args \in ArgSeqs :
        /\ last = NoOp
        /\ chains' = chains
        /\ last' = Op("call", self, <<>>, chains[self].handlers, chains[self],
                      "none", args, __call__(chains[self], args))

CallNext ==
    /\ UNCHANGED <<tm, it, rp, br, tr, mh, cl, ob, lk, cx, mo, dp, nest>>
    /\ \/ Call
       \/ Discard

SpecCall == CallInit /\ [][CallNext]_vars

\* hn(...h2(h1(*args))...), from the outermost handler inwards.
RECURSIVE Composition(_, _)
Composition(hs, args) ==
    IF Len(hs) = 1 THEN apply(hs[1].id, args)
    ELSE apply(hs[Len(hs)].id,
               <<Composition(SubSeq(hs, 1, Len(hs) - 1), args)>>)

\* C1: a call of a non-empty chain (h1, ..., hn) on args calls every
\* handler once and in chain order, h1 with args and every next handler with
\* exactly the output of the previous one, and returns the output of hn,
\* which is hn(...h2(h1(*args))...).
C1_CallComposes ==
    (last.op = "call" /\ last.before # <<>>) =>
        LET hs == last.before
            log == last.out.log
            n == Len(hs)
        IN /\ last.out.kind = "value"
           /\ Len(log) = n
           /\ \A i \in 1..n :
                  /\ log[i].fn = hs[i].id
                  /\ log[i].output = apply(hs[i].id, log[i].input)
           /\ log[1].input = last.args
           /\ \A i \in 2..n : log[i].input = <<log[i - 1].output>>
           /\ last.out.v = log[n].output
           /\ last.out.v = Composition(hs, last.args)

C1_Witness ==
    /\ last.op = "call"
    /\ Len(last.before) = 3
    /\ last.before[1].id # last.before[2].id
    /\ Len(last.args) = 2
    /\ last.out.kind = "value"
    /\ last.out.v # Composition(<<last.before[2], last.before[1], last.before[3]>>,
                                last.args)

\* C2: a call of a chain without handlers (such as `then`) on one input
\* value returns that value.
C2_EmptyChainReturnsInput ==
    (last.op = "call" /\ last.before = <<>> /\ Len(last.args) = 1) =>
        (last.out.kind = "value" /\ last.out.v = last.args[1])

\* =================================================================== times
\* tools.py: Clock(ticks_to_disability)
Clock(ticks_to_disability) ==
    [ticks_to_disability |-> ticks_to_disability,
     _initial_ticks_to_disability |-> ticks_to_disability]

\* Clock.__bool__
Clock__bool__(clock) == clock.ticks_to_disability > 0

\* Clock.initial_ticks_to_disability, a DelegatingProperty
initial_ticks_to_disability(clock) == clock._initial_ticks_to_disability

Bool(b) == [kind |-> "bool", b |-> b]
CallTypeError == [kind |-> "TypeError", b |-> FALSE]

\* --- handlers.py: what times(number) returns is
\* partial(additionally(dynamically_bind(setattr ..., on_condition(...))) |then>> bool, clock)
handlers_times(number) == Clock(number + 1)

\* on_condition(return_, lambda clock: clock.ticks_to_disability - 1,
\*              else_=lambda clock: clock.initial_ticks_to_disability - 1)(clock)
handlers_on_condition(clock) ==
    IF Clock__bool__(clock)
    THEN clock.ticks_to_disability - 1
    ELSE initial_ticks_to_disability(clock) - 1

\* The partial passes the clock and then the caller's arguments to the first
\* handler of the chain, additionally's wrapper(resource), which takes one.
handlers_times_call(clock, nargs) ==
    IF nargs > 0 THEN [clock |-> clock, result |-> CallTypeError]
    ELSE LET ticked == [clock EXCEPT !.ticks_to_disability = handlers_on_condition(clock)]
         IN [clock |-> ticked, result |-> Bool(Clock__bool__(ticked))]

\* --- utils.py: operation_by('+', 1) |then>> Clock |then>> closed(...) |then>> eventually
utils_times(number) == Clock(number + 1)

\* returnly(action)(value): the action is run for its effect on the value,
\* and the value is returned (binders.py prints two revisions of the body
\* over each other; this is the class's docstring).
returnly_set_ticks(clock, ticks) == [clock EXCEPT !.ticks_to_disability = ticks]

\* on(transform |by| 'not', returnly(lambda clock: setattr(clock,
\*     "ticks_to_disability", clock.initial_ticks_to_disability)))(clock), else returned
utils_on_not(clock) ==
    IF ~Clock__bool__(clock)
    THEN returnly_set_ticks(clock, initial_ticks_to_disability(clock))
    ELSE clock

\* eventually drops the caller's arguments
utils_times_call(clock, nargs) ==
    LET reset == utils_on_not(clock)
        ticked == returnly_set_ticks(reset, reset.ticks_to_disability - 1)
    IN [clock |-> ticked, result |-> Bool(Clock__bool__(ticked))]

\* --- act/iteration.py: the generator, and next() on it.  started is FALSE
\* until the first next() runs the body up to the first yield.
act_times(max_steps) == [max_steps |-> max_steps, steps |-> max_steps, started |-> FALSE]

act_next_without_restart(gen) ==
    LET resumed == IF gen.started THEN gen.steps - 1 ELSE gen.max_steps
    IN [gen |-> [gen EXCEPT !.steps = resumed, !.started = TRUE],
        result |-> Bool(resumed > 0)]

act_next(gen) ==
    LET resumed ==
            IF ~gen.started THEN gen.max_steps
            ELSE IF gen.steps - 1 < 0 THEN gen.max_steps
            ELSE gen.steps - 1
    IN [gen |-> [gen EXCEPT !.steps = resumed, !.started = TRUE],
        result |-> Bool(resumed > 0)]

\* iteration_over(generator)(*args): eventually drops the arguments; the
\* generator never ends, so trying_to has nothing to catch.
act_times_call(gen, nargs) == act_next(gen)

\* tm: which times it is, its number, the object it closes over, the calls
\* made so far, how many of them returned, and the last call.
Times(impl, number, state, calls, returned, nargs, result) ==
    [impl |-> impl, number |-> number, state |-> state, calls |-> calls,
     returned |-> returned, nargs |-> nargs, result |-> result]

TimesInit ==
    /\ chains = Idle /\ last = Idle
    /\ it = Idle /\ rp = Idle /\ br = Idle /\ tr = Idle /\ mh = Idle
    /\ cl = Idle /\ ob = Idle /\ lk = Idle /\ cx = Idle
    /\ mo = Idle /\ dp = Idle /\ nest = Idle
    /\ \E number \in 0..MaxNumber :
           \/ tm = Times("handlers", number, handlers_times(number), 0, 0, 0, Bool(TRUE))
           \/ tm = Times("utils", number, utils_times(number), 0, 0, 0, Bool(TRUE))
           \/ tm = Times("act", number, act_times(number), 0, 0, 0, Bool(TRUE))

TimesCalled(nargs, outcome, state) ==
    tm' = [tm EXCEPT !.state = state,
                     !.calls = @ + 1,
                     !.returned = IF outcome.kind = "bool" THEN @ + 1 ELSE @,
                     !.nargs = nargs,
                     !.result = outcome]

HandlersTimesCall ==
    \E nargs \in 0..1 :
        /\ tm.impl = "handlers"
        /\ tm.calls < MaxCalls
        /\ LET r == handlers_times_call(tm.state, nargs)
           IN TimesCalled(nargs, r.result, r.clock)

UtilsTimesCall ==
    \E nargs \in 0..1 :
        /\ tm.impl = "utils"
        /\ tm.calls < MaxCalls
        /\ LET r == utils_times_call(tm.state, nargs)
           IN TimesCalled(nargs, r.result, r.clock)

ActTimesCall ==
    \E nargs \in 0..1 :
        /\ tm.impl = "act"
        /\ tm.calls < MaxCalls
        /\ LET r == act_times_call(tm.state, nargs)
           IN TimesCalled(nargs, r.result, r.gen)

TimesNext ==
    /\ UNCHANGED <<chains, last, it, rp, br, tr, mh, cl, ob, lk, cx, mo, dp, nest>>
    /\ \/ HandlersTimesCall
       \/ UtilsTimesCall
       \/ ActTimesCall

SpecTimes == TimesInit /\ [][TimesNext]_vars

C5_Periodic ==
    tm.calls > 0 =>
        /\ tm.result.kind = "bool" <=> (tm.impl # "handlers" \/ tm.nargs = 0)
        /\ tm.result.kind = "bool" =>
               tm.result.b = (tm.returned % (tm.number + 1) # 0)
        /\ tm.impl # "handlers" => tm.returned = tm.calls

Val(v) == [kind |-> "value", v |-> v]
None == [kind |-> "None", v |-> 0]
StopIteration == [kind |-> "StopIteration", v |-> 0]
ValueError == [kind |-> "ValueError", v |-> 0]
KeyboardInterrupt == [kind |-> "KeyboardInterrupt", v |-> 0]

\* isinstance(error, Exception): KeyboardInterrupt derives from
\* BaseException only.
IsException(x) == x.kind \in {"StopIteration", "ValueError"}

\* How a call ended: with `value` returned, or with `value` raised;
\* rollbacks lists the calls made to a rollback on the way.
Returns(value) == [raised |-> FALSE, value |-> value, rollbacks |-> <<>>]
Raises(error) == [raised |-> TRUE, value |-> error, rollbacks |-> <<>>]

\* synonyms.py: returned
returned(value) == value

trying_to_without_except(outcome, rolled_back, args) == outcome

\* synonyms.py: trying_to(action, rollback)(*args), where outcome is how
\* action(*args) ended and rolled_back how rollback(*args)(error) ends for
\* the error it raised (evaluated only when it is called).
trying_to(outcome, rolled_back, args) ==
    IF outcome.raised /\ IsException(outcome.value)
    THEN [rolled_back EXCEPT
              !.rollbacks = <<[args |-> args, error |-> outcome.value]>>]
    ELSE outcome

\* synonyms.py: on(determinant, right_way, else_)(*args), where checked is
\* what the condition checker says of the arguments and right and left are
\* the results of the two actions on them; the one not chosen is not
\* evaluated.
on(checked, right, left) == IF checked THEN right ELSE left

\* ================================================================ iteration
MaxItems == 3

ItemValues == {Val(0), Val(1), None, StopIteration}

\* iter(iterable) and next(iterator) of a sequence
iter(iterable) == [items |-> iterable, pos |-> 0]

next(iterator) ==
    IF iterator.pos < Len(iterator.items)
    THEN Returns(iterator.items[iterator.pos + 1])
    ELSE Raises(StopIteration)

advanced(iterator) ==
    IF iterator.pos < Len(iterator.items)
    THEN [iterator EXCEPT !.pos = @ + 1]
    ELSE iterator

\* _get: hands back what it is given
_get(value) == value

\* catching(error_type, handler)(error): the handler's result for an error
\* of the type, the error raised again otherwise
catching(error_type, handled, error) ==
    IF error.kind = error_type THEN Returns(handled) ELSE Raises(error)

iteration_over_call_raising(iterator, args) == next(iterator)

\* iteration_over(iterable)(*args), on the iterator iter(iterable) made when
\* iteration_over was applied: eventually(next, iterator) drops the
\* arguments, to(catching(StopIteration, _get)) is the rollback.
iteration_over_call(iterator, args) ==
    trying_to(next(iterator),
              catching("StopIteration", _get(next(iterator).value),
                       next(iterator).value),
              args)

\* infinite(action)(*args): action |then>> on(isinstance |by| StopIteration, None)
infinite_call(outcome) ==
    IF outcome.raised THEN outcome
    ELSE [outcome EXCEPT !.value =
              on(outcome.value.kind = "StopIteration",
                 None,
                 returned(outcome.value))]

SmallArgSeqs == UNION {[1..n -> 0..1] : n \in 0..1}

IterationInit ==
    /\ chains = Idle /\ last = Idle
    /\ tm = Idle /\ rp = Idle /\ br = Idle /\ tr = Idle /\ mh = Idle
    /\ cl = Idle /\ ob = Idle /\ lk = Idle /\ cx = Idle
    /\ mo = Idle /\ dp = Idle /\ nest = Idle
    /\ \E iterable \in UNION {[1..n -> ItemValues] : n \in 0..MaxItems},
          wrapped \in BOOLEAN :
           it = [iterable |-> iterable, iterator |-> iter(iterable),
                 infinite |-> wrapped, calls |-> 0, args |-> <<>>,
                 raw |-> Returns(None), result |-> Returns(None)]

IterationCalled(args, raw, result) ==
    it' = [it EXCEPT !.iterator = advanced(it.iterator),
                     !.calls = @ + 1,
                     !.args = args,
                     !.raw = raw,
                     !.result = result]

IterationOverCall ==
    \E args \in SmallArgSeqs :
        /\ ~it.infinite
        /\ it.calls < Len(it.iterable) + 2
        /\ LET raw == iteration_over_call(it.iterator, args)
           IN IterationCalled(args, raw, raw)

InfiniteCall ==
    \E args \in SmallArgSeqs :
        /\ it.infinite
        /\ it.calls < Len(it.iterable) + 2
        /\ LET raw == iteration_over_call(it.iterator, args)
           IN IterationCalled(args, raw, infinite_call(raw))

IterationNext ==
    /\ UNCHANGED <<chains, last, tm, rp, br, tr, mh, cl, ob, lk, cx, mo, dp, nest>>
    /\ \/ IterationOverCall
       \/ InfiniteCall

SpecIteration == IterationInit /\ [][IterationNext]_vars

MaxRepeats == 4
NumPreds == 2

Preds == 1..NumPreds

\* The callable checkers the tests are made with
Pred(p, value) == value % (p + 1) # 0

Checker(p) == [callable |-> TRUE, v |-> p]
Plain(v) == [callable |-> FALSE, v |-> v]

\* to_check(determinant)(value): the determinant itself when it is
\* callable, and the comparison with it when it is not
to_check(determinant, value) ==
    IF determinant.callable THEN Pred(determinant.v, value)
    ELSE value = determinant.v

repeating__call__once_at_least(r) ==
    IF r.calls = <<>> \/ to_check(r.while_, r.value)
    THEN [r EXCEPT !.value = apply(r.action, <<r.value>>),
                   !.calls = Append(@, r.value)]
    ELSE [r EXCEPT !.pc = "returned"]

\* synonyms.py: one round of the loop of repeating.__call__, or its return
repeating__call__(r) ==
    IF to_check(r.while_, r.value)
    THEN [r EXCEPT !.value = apply(r.action, <<r.value>>),
                   !.calls = Append(@, r.value)]
    ELSE [r EXCEPT !.pc = "returned"]

\* handlers.py: one round of the loop of recursively_handle, or its return;
\* the condition checker is called as it is
recursively_handle(r) ==
    IF Pred(r.while_.v, r.value)
    THEN [r EXCEPT !.value = apply(r.action, <<r.value>>),
                   !.calls = Append(@, r.value)]
    ELSE [r EXCEPT !.pc = "returned"]

RepeatingInit ==
    /\ chains = Idle /\ last = Idle
    /\ tm = Idle /\ it = Idle /\ br = Idle /\ tr = Idle /\ mh = Idle
    /\ cl = Idle /\ ob = Idle /\ lk = Idle /\ cx = Idle
    /\ mo = Idle /\ dp = Idle /\ nest = Idle
    /\ \E action \in Fns, value \in Values :
           \/ \E while_ \in {Checker(p) : p \in Preds} \cup {Plain(v) : v \in Values} :
                  rp = [impl |-> "repeating", action |-> action, while_ |-> while_,
                        given |-> value, value |-> value, calls |-> <<>>, pc |-> "loop"]
           \/ \E while_ \in {Checker(p) : p \in Preds} :
                  rp = [impl |-> "recursively", action |-> action, while_ |-> while_,
                        given |-> value, value |-> value, calls |-> <<>>, pc |-> "loop"]

Repeating ==
    /\ rp.impl = "repeating"
    /\ rp.pc = "loop"
    /\ Len(rp.calls) < MaxRepeats
    /\ rp' = repeating__call__(rp)

Recursively ==
    /\ rp.impl = "recursively"
    /\ rp.pc = "loop"
    /\ Len(rp.calls) < MaxRepeats
    /\ rp' = recursively_handle(rp)

RepeatingNext ==
    /\ UNCHANGED <<chains, last, tm, it, br, tr, mh, cl, ob, lk, cx, mo, dp, nest>>
    /\ \/ Repeating
       \/ Recursively

SpecRepeating == RepeatingInit /\ [][RepeatingNext]_vars

\* action applied n times to value
RECURSIVE Iterated(_, _, _)
Iterated(action, value, n) ==
    IF n = 0 THEN value ELSE apply(action, <<Iterated(action, value, n - 1)>>)

Holds(while_, value) ==
    IF while_.callable THEN Pred(while_.v, value) ELSE value = while_.v

\* C7: repeating(action, while_=p)(v) and recursively(action, p)(v) call
\* action once on each element of v, action(v), action(action(v)), ... that
\* satisfies p and comes before the first that does not, in that order, and
\* return that first element; when p(v) is false, that is v, and action is
\* not called.
C7_ReturnsFirstFailing ==
    /\ \A i \in DOMAIN rp.calls :
           /\ rp.calls[i] = Iterated(rp.action, rp.given, i - 1)
           /\ Holds(rp.while_, rp.calls[i])
    /\ rp.value = Iterated(rp.action, rp.given, Len(rp.calls))
    /\ rp.pc = "returned" => ~Holds(rp.while_, rp.value)
    /\ (rp.pc = "returned" /\ ~Holds(rp.while_, rp.given)) =>
           (rp.value = rp.given /\ rp.calls = <<>>)

C7_Witness ==
    /\ rp.pc = "returned"
    /\ Len(rp.calls) = 2
    /\ rp.value # rp.given
    /\ rp.impl = "repeating"

\* ================================================================ branching
MaxForks == 2

\* What a branching ended with, and the actions it evaluated on the way
Branched(v, evaluated) == [kind |-> "value", v |-> v, evaluated |-> evaluated]
BranchingTypeError == [kind |-> "TypeError", v |-> 0, evaluated |-> <<>>]

\* else_: `returned` by default, or a callable of the caller
Returned_ == [kind |-> "returned", id |-> 0]
Else(f) == [kind |-> "fn", id |-> f]

else_call(else_, value) ==
    IF else_.kind = "returned" THEN Branched(returned(value), <<>>)
    ELSE Branched(apply(else_.id, <<value>>), <<else_>>)

\* utils.py: _Fork(*args), a NamedTuple of the two fields checker and action
_Fork(args) ==
    IF Len(args) = 2
    THEN [made |-> TRUE, checker |-> args[1], action |-> args[2]]
    ELSE [made |-> FALSE, checker |-> 0, action |-> 0]

\* utils.py: map_(_Fork, forks) = tuple(map(_Fork, forks)) calls _Fork with
\* each fork as its one positional argument
map_Fork(forks) ==
    LET mapped == [i \in 1..Len(forks) |-> _Fork(<<forks[i]>>)]
    IN [made |-> \A i \in 1..Len(forks) : mapped[i].made, forks |-> mapped]

\* utils.py: branching(*forks, else_=else_)(value)
RECURSIVE branching(_, _, _)
branching(forks, else_, value) ==
    LET mapped == map_Fork(forks)
    IN IF ~mapped.made THEN BranchingTypeError
       ELSE IF Len(mapped.forks) = 1
       THEN on(Pred(mapped.forks[1].checker, value),
               Branched(apply(mapped.forks[1].action, <<value>>),
                        <<Else(mapped.forks[1].action)>>),
               else_call(else_, value))
       ELSE LET others == branching(Tail(mapped.forks), Returned_, value)
            IN IF others.kind = "TypeError" THEN BranchingTypeError
               ELSE on(Pred(mapped.forks[1].checker, value),
                       Branched(apply(mapped.forks[1].action, <<value>>),
                                <<Else(mapped.forks[1].action)>>),
                       others)

Forks == [checker : Preds, action : Fns]

BranchingInit ==
    /\ chains = Idle /\ last = Idle
    /\ tm = Idle /\ it = Idle /\ rp = Idle /\ tr = Idle /\ mh = Idle
    /\ cl = Idle /\ ob = Idle /\ lk = Idle /\ cx = Idle
    /\ mo = Idle /\ dp = Idle /\ nest = Idle
    /\ \E forks \in UNION {[1..n -> Forks] : n \in 1..MaxForks},
          else_ \in {Returned_} \cup {Else(f) : f \in Fns},
          value \in Values :
           br = [forks |-> forks, else_ |-> else_, value |-> value,
                 called |-> FALSE, result |-> Branched(0, <<>>)]

BranchingCall ==
    /\ ~br.called
    /\ br' = [br EXCEPT !.called = TRUE,
                        !.result = branching(br.forks, br.else_, br.value)]

BranchingNext ==
    /\ UNCHANGED <<chains, last, tm, it, rp, tr, mh, cl, ob, lk, cx, mo, dp, nest>>
    /\ BranchingCall

SpecBranching == BranchingInit /\ [][BranchingNext]_vars

\* The forks whose condition holds of the value
Chosen(forks, value) == {i \in DOMAIN forks : Pred(forks[i].checker, value)}

First(S) == CHOOSE i \in S : \A j \in S : i <= j

\* C8: branching((c1, a1), ..., (cn, an), else_=e)(x) returns ai(x) for the
\* smallest i with ci(x) true and evaluates no other action, and returns
\* e(x) when no ci(x) is true, e being the caller's else_ or `returned`.
C8_IfElifElse ==
    br.called =>
        IF Chosen(br.forks, br.value) # {}
        THEN LET i == First(Chosen(br.forks, br.value))
             IN br.result = Branched(apply(br.forks[i].action, <<br.value>>),
                                     <<Else(br.forks[i].action)>>)
        ELSE br.result = else_call(br.else_, br.value)

\* ============================================================ error handling
\* The action under trial: callable f, raising `error` when the sum of its
\* arguments is fails_on
Action(f, fails_on, error) == [f |-> f, fails_on |-> fails_on, error |-> error]

action_call(action, args) ==
    IF SumOf(args) = action.fails_on THEN Raises(action.error)
    ELSE Returns(Val(apply(action.f, args)))

ErrorCode(error) == IF error.kind = "ValueError" THEN 2 ELSE 1

\* rollback number r: rollback(*args)(error)
rollback_call(r, args, error) ==
    Returns(Val(4 * r + 2 * (SumOf(args) % 2) + ErrorCode(error)))

\* handlers.py: rollbackable(func, rollbacker)(*args), where outcome is how
\* func(*args) ended and rolled_back how rollbacker(error) ends
rollbackable(outcome, rolled_back) ==
    IF outcome.raised /\ IsException(outcome.value)
    THEN [rolled_back EXCEPT
              !.rollbacks = <<[args |-> <<>>, error |-> outcome.value]>>]
    ELSE outcome

TryingInit ==
    /\ chains = Idle /\ last = Idle
    /\ tm = Idle /\ it = Idle /\ rp = Idle /\ br = Idle /\ mh = Idle
    /\ cl = Idle /\ ob = Idle /\ lk = Idle /\ cx = Idle
    /\ mo = Idle /\ dp = Idle /\ nest = Idle
    /\ \E impl \in {"trying_to", "rollbackable"},
          f \in Fns,
          fails_on \in 0..1,
          error \in {ValueError, StopIteration, KeyboardInterrupt},
          r \in 0..1,
          args \in ArgSeqs :
           tr = [impl |-> impl, action |-> Action(f, fails_on, error),
                 rollback |-> r, args |-> args, called |-> FALSE,
                 outcome |-> Returns(None)]

TryingToCall ==
    /\ tr.impl = "trying_to"
    /\ ~tr.called
    /\ tr' = [tr EXCEPT
                 !.called = TRUE,
                 !.outcome = trying_to(action_call(tr.action, tr.args),
                                       rollback_call(tr.rollback, tr.args,
                                                     action_call(tr.action, tr.args).value),
                                       tr.args)]

RollbackableCall ==
    /\ tr.impl = "rollbackable"
    /\ ~tr.called
    /\ tr' = [tr EXCEPT
                 !.called = TRUE,
                 !.outcome = rollbackable(action_call(tr.action, tr.args),
                                          rollback_call(tr.rollback, <<>>,
                                                        action_call(tr.action, tr.args).value))]

TryingNext ==
    /\ UNCHANGED <<chains, last, tm, it, rp, br, mh, cl, ob, lk, cx, mo, dp, nest>>
    /\ \/ TryingToCall
       \/ RollbackableCall

SpecTrying == TryingInit /\ [][TryingNext]_vars

\* C9: when action(*args) raises nothing, trying_to(action, rollback)(*args)
\* returns its value and rollback is not called; when it raises an
\* Exception e, rollback is called once, with the same args, its result is
\* called with e, and the value of that call is returned, e not being
\* raised; rollbackable(func, rollbacker) returns rollbacker(e).
C9_RollbackOnException ==
    tr.called =>
        LET fails == SumOf(tr.args) = tr.action.fails_on
            e == tr.action.error
        IN /\ ~fails =>
                  /\ ~tr.outcome.raised
                  /\ tr.outcome.value = Val(apply(tr.action.f, tr.args))
                  /\ tr.outcome.rollbacks = <<>>
           /\ (fails /\ IsException(e)) =>
                  /\ ~tr.outcome.raised
                  /\ tr.outcome.rollbacks =
                         <<[args |-> IF tr.impl = "trying_to" THEN tr.args ELSE <<>>,
                            error |-> e]>>
                  /\ tr.outcome.value =
                         Val(4 * tr.rollback + ErrorCode(e)
                             + IF tr.impl = "trying_to"
                               THEN 2 * (SumOf(tr.args) % 2) ELSE 0)

C9_Witness ==
    /\ tr.called
    /\ tr.impl = "trying_to"
    /\ tr.args = <<0, 1>>
    /\ tr.action.fails_on = 1
    /\ tr.action.error = ValueError
    /\ tr.rollback = 1
    /\ tr.outcome = [raised |-> FALSE, value |-> Val(8),
                     rollbacks |-> <<[args |-> <<0, 1>>, error |-> ValueError]>>]

\* =========================================================== MultipleHandler
MaxMultiple == 3

ReturnFlag == {"first_received", "last_thing", "everything", "nothing"}

\* A result of MultipleHandler.__call__: a value, None, the list `items`,
\* or the error raised; calls are the handlers called, in order.
Multiple(kind, v, items, calls) ==
    [kind |-> kind, v |-> v, items |-> items, calls |-> calls]

Unbound == [kind |-> "unbound", v |-> 0]

\* The handlers a MultipleHandler is given: handler h of a resource
handler_call(h, resource) ==
    IF (resource + h) % 2 = 0 THEN None ELSE Val((resource + h) % Modulus)

\* HandlerKeeper.__init__(handler_resource, *handlers)
HandlerKeeper(handler_resource, handlers) ==
    (IF IsIterable(handler_resource)
     THEN handler_resource.handlers
     ELSE <<handler_resource>>) \o handlers

RECURSIVE MultipleHandler__call__to_the_end(_, _, _, _, _, _)
MultipleHandler__call__to_the_end(handlers, return_flag, resource, result_of_all_handlers, handler_result, calls) ==
    IF handlers = <<>>
    THEN IF return_flag = "everything"
         THEN Multiple("list", 0, result_of_all_handlers, calls)
         ELSE IF return_flag = "last_thing"
         THEN IF handler_result = Unbound
              THEN Multiple("UnboundLocalError", 0, <<>>, calls)
              ELSE Multiple(handler_result.kind, handler_result.v, <<>>, calls)
         ELSE Multiple("None", 0, <<>>, calls)
    ELSE LET result == handler_call(Head(handlers).id, resource)
         IN MultipleHandler__call__to_the_end(
                Tail(handlers), return_flag, resource,
                IF return_flag = "everything"
                THEN Append(result_of_all_handlers, result)
                ELSE result_of_all_handlers,
                result, Append(calls, Head(handlers).id))

\* handlers.py: MultipleHandler.__call__, from the handlers still to call,
\* the list gathered, the last result and the calls made so far
RECURSIVE MultipleHandler__call__(_, _, _, _, _, _)
MultipleHandler__call__(handlers, return_flag, resource, result_of_all_handlers, handler_result, calls) ==
    IF handlers = <<>>
    THEN IF return_flag = "everything"
         THEN Multiple("list", 0, result_of_all_handlers, calls)
         ELSE IF return_flag = "last_thing"
         THEN IF handler_result = Unbound
              THEN Multiple("UnboundLocalError", 0, <<>>, calls)
              ELSE Multiple(handler_result.kind, handler_result.v, <<>>, calls)
         ELSE Multiple("None", 0, <<>>, calls)
    ELSE LET result == handler_call(Head(handlers).id, resource)
             called == Append(calls, Head(handlers).id)
         IN IF return_flag = "first_received" /\ result # None
            THEN Multiple(result.kind, result.v, <<>>, called)
            ELSE MultipleHandler__call__(
                     Tail(handlers), return_flag, resource,
                     IF return_flag = "everything"
                     THEN Append(result_of_all_handlers, result)
                     ELSE result_of_all_handlers,
                     result, called)

MultipleFns == {Fn(h) : h \in 1..(NumFns + 1)}

MultipleInit ==
    /\ chains = Idle /\ last = Idle
    /\ tm = Idle /\ it = Idle /\ rp = Idle /\ br = Idle /\ tr = Idle
    /\ cl = Idle /\ ob = Idle /\ lk = Idle /\ cx = Idle
    /\ mo = Idle /\ dp = Idle /\ nest = Idle
    /\ \E return_flag \in ReturnFlag, resource \in Values :
           \* MultipleHandler(h1, ..., hn, return_flag=F)
           \/ \E hs \in UNION {[1..n -> MultipleFns] : n \in 1..MaxMultiple} :
                  mh = [handlers |-> HandlerKeeper(Head(hs), Tail(hs)),
                        return_flag |-> return_flag, resource |-> resource,
                        called |-> FALSE, result |-> Multiple("None", 0, <<>>, <<>>)]
           \* MultipleHandler([h1, ..., hn], return_flag=F)
           \/ \E hs \in UNION {[1..n -> MultipleFns] : n \in 0..MaxMultiple} :
                  mh = [handlers |-> HandlerKeeper(Tuple(hs), <<>>),
                        return_flag |-> return_flag, resource |-> resource,
                        called |-> FALSE, result |-> Multiple("None", 0, <<>>, <<>>)]

MultipleHandlerCall ==
    /\ ~mh.called
    /\ mh' = [mh EXCEPT
                 !.called = TRUE,
                 !.result = MultipleHandler__call__(
                                mh.handlers, mh.return_flag, mh.resource,
                                <<>>, Unbound, <<>>)]

MultipleNext ==
    /\ UNCHANGED <<chains, last, tm, it, rp, br, tr, cl, ob, lk, cx, mo, dp, nest>>
    /\ MultipleHandlerCall

SpecMultiple == MultipleInit /\ [][MultipleNext]_vars

ResultOf(i) == handler_call(mh.handlers[i].id, mh.resource)

Received == {i \in DOMAIN mh.handlers : ResultOf(i).kind # "None"}

\* C10: MultipleHandler(h1, ..., hn, return_flag=F)(resource) calls its
\* handlers in order on the one resource; with first_received it returns the
\* first result that is not None and calls no handler after it (None when
\* every result is None), with everything the list of the n results in
\* order, with last_thing the result of hn, with nothing None, all n
\* handlers having been called in the last three cases.
C10_ReturnsByFlag ==
    (mh.called /\ mh.handlers # <<>>) =>
        LET n == Len(mh.handlers)
            ids(k) == [i \in 1..k |-> mh.handlers[i].id]
        IN /\ mh.return_flag = "first_received" =>
                  IF Received # {}
                  THEN mh.result = Multiple("value", ResultOf(First(Received)).v,
                                            <<>>, ids(First(Received)))
                  ELSE mh.result = Multiple("None", 0, <<>>, ids(n))
           /\ mh.return_flag = "everything" =>
                  mh.result = Multiple("list", 0, [i \in 1..n |-> ResultOf(i)], ids(n))
           /\ mh.return_flag = "last_thing" =>
                  mh.result = Multiple(ResultOf(n).kind, ResultOf(n).v, <<>>, ids(n))
           /\ mh.return_flag = "nothing" =>
                  mh.result = Multiple("None", 0, <<>>, ids(n))

C10_Witness ==
    /\ mh.called
    /\ mh.return_flag = "first_received"
    /\ Len(mh.handlers) = 3
    /\ Received # {}
    /\ First(Received) = 2
    /\ Len(mh.result.calls) = 2
    /\ mh.result.kind = "value"

\* ================================================================ to_clone
\* tools.py.  Objects with state live in a heap; every object has an
\* attribute `value` holding a number and an attribute `child` holding None
\* (0) or another object of the heap.  A reference is to an object of the
\* heap or is a number, which has no state of its own.
MaxObjects == 2

ObjRef(id) == [kind |-> "obj", id |-> id]
IntRef(v) == [kind |-> "int", id |-> v]
Object(value, child) == [value |-> value, child |-> child]

\* The objects deepcopy walks from `id`, in the order it meets them; its
\* memo keeps it from copying an object twice.
RECURSIVE Reached(_, _, _)
Reached(heap, id, memo) ==
    IF id = 0 \/ \E k \in DOMAIN memo : memo[k] = id
    THEN memo
    ELSE Reached(heap, heap[id].child, Append(memo, id))

CopyOf(memo, base, id) ==
    IF id = 0 THEN 0
    ELSE base + (CHOOSE k \in DOMAIN memo : memo[k] = id)

\* copy.copy in the place of deepcopy: the clone shares the nested objects.
deepcopy_shallow(heap, x) ==
    IF x.kind = "int"
    THEN [heap |-> heap, clone |-> x]
    ELSE [heap |-> Append(heap, heap[x.id]), clone |-> ObjRef(Len(heap) + 1)]

\* deepcopy(x): a number is returned as it is; an object is copied with
\* every object nested in it, the copies referring to one another the way
\* the originals do.
deepcopy(heap, x) ==
    IF x.kind = "int"
    THEN [heap |-> heap, clone |-> x]
    ELSE LET memo == Reached(heap, x.id, <<>>)
             base == Len(heap)
         IN [heap |-> heap \o [k \in DOMAIN memo |->
                                  Object(heap[memo[k]].value,
                                         CopyOf(memo, base, heap[memo[k]].child))],
             clone |-> ObjRef(base + 1)]

\* The methods given to to_clone:
\*   "setattr"     setattr(o, 'value', v)
\*   "set_nested"  o.child.value = v
\*   "nothing"     a method that changes nothing, such as int.bit_length
\* ending with the heap it leaves and whether it raised.
method_call(method, heap, o, v) ==
    CASE method = "setattr" ->
             IF o.kind = "obj"
             THEN [heap |-> [heap EXCEPT ![o.id].value = v], raised |-> FALSE]
             ELSE [heap |-> heap, raised |-> TRUE]
      [] method = "set_nested" ->
             IF o.kind = "obj" /\ heap[o.id].child # 0
             THEN [heap |-> [heap EXCEPT ![heap[o.id].child].value = v],
                   raised |-> FALSE]
             ELSE [heap |-> heap, raised |-> TRUE]
      [] OTHER -> [heap |-> heap, raised |-> FALSE]

\* to_clone(method)(instance, v)
to_clone(method, heap, instance, v) ==
    LET copied == deepcopy(heap, instance)
        applied == method_call(method, copied.heap, copied.clone, v)
    IN [heap |-> applied.heap, raised |-> applied.raised,
        clone |-> copied.clone]

Methods == {"setattr", "set_nested", "nothing"}

\* The numbers objects hold before the call.
Held == {0, 1}

Heaps(most) ==
    UNION {[1..n -> {Object(v, c) : v \in Held, c \in 0..n}] :
               n \in 1..most}

Cloned(heap, called, method, instance, v, before, raised, clone) ==
    [heap |-> heap, called |-> called, method |-> method,
     instance |-> instance, v |-> v, before |-> before, raised |-> raised,
     clone |-> clone]

CloneInit ==
    /\ \E heap \in Heaps(MaxObjects) :
           cl = Cloned(heap, FALSE, "nothing", IntRef(0), 0, heap, FALSE, IntRef(0))
    /\ chains = Idle /\ last = Idle
    /\ tm = Idle /\ it = Idle /\ rp = Idle /\ br = Idle /\ tr = Idle /\ mh = Idle
    /\ ob = Idle /\ lk = Idle /\ cx = Idle
    /\ mo = Idle /\ dp = Idle /\ nest = Idle

Instances == {ObjRef(id) : id \in DOMAIN cl.heap} \cup {IntRef(v) : v \in Values}

ToClone ==
    \E method \in Methods, instance \in Instances, v \in Values :
        /\ ~cl.called
        /\ LET done == to_clone(method, cl.heap, instance, v)
           IN cl' = Cloned(done.heap, TRUE, method, instance, v, cl.heap,
                           done.raised, done.clone)

CloneNext ==
    /\ UNCHANGED <<chains, last, tm, it, rp, br, tr, mh, ob, lk, cx, mo, dp, nest>>
    /\ ToClone

SpecClone == CloneInit /\ [][CloneNext]_vars

CloneReturned == cl.called /\ ~cl.raised

\* The instance and every object that was there before the call have the
\* state they had.
InstanceKept ==
    \A id \in DOMAIN cl.before :
        id \in DOMAIN cl.heap /\ cl.heap[id] = cl.before[id]

AttrNames == {"a", "b"}
AttrValues == {None, Val(1)}

\* What the class obj itself gives every instance.
ClassAttrs(kind) == IF kind = "obj" THEN {"plugin"} ELSE {}

Keys(d) == {d[i][1] : i \in DOMAIN d}
Items(d) == {d[i] : i \in DOMAIN d}

dict_set(d, key, value) ==
    IF key \in Keys(d)
    THEN [i \in DOMAIN d |-> IF d[i][1] = key THEN <<key, value>> ELSE d[i]]
    ELSE Append(d, <<key, value>>)

dict_del(d, key) == SelectSeq(d, LAMBDA item : item[1] # key)

\* left | right with the values of the left dict kept
or_left_wins(left, right) ==
    left \o SelectSeq(right, LAMBDA item : item[1] \notin Keys(left))

\* left | right
RECURSIVE or_(_, _)
or_(left, right) ==
    IF right = <<>> THEN left
    ELSE or_(dict_set(left, Head(right)[1], Head(right)[2]), Tail(right))

\* dict.__eq__: the same keys with the same values.
dict_eq(left, right) == Items(left) = Items(right)

Obj(kind, dict) == [kind |-> kind, dict |-> dict]

\* obj(**attributes)
obj(attributes) == Obj("obj", attributes)

void == obj(<<>>)

hasattr(o, name) == name \in Keys(o.dict) \cup ClassAttrs(o.kind)

setattr(o, name, value) ==
    [o |-> Obj(o.kind, dict_set(o.dict, name, value)), raised |-> FALSE]

\* delattr looks only into the instance's own __dict__.
delattr(o, name) ==
    IF name \in Keys(o.dict)
    THEN [o |-> Obj(o.kind, dict_del(o.dict, name)), raised |-> FALSE]
    ELSE [o |-> o, raised |-> TRUE]

dict_of(value) ==
    IF value.kind \in {"obj", "MockA"} THEN value.dict
    ELSE IF value.kind = "dict" THEN value.dict
    ELSE <<>>

\* obj.__eq__
obj__eq__(self, other) ==
    other.kind = "obj" /\ dict_eq(dict_of(self), dict_of(other))

\* The bodies of obj.__add__ and obj.__sub__, on the object given.
obj_method(method, self, attr_name) ==
    IF method = "__add__"
    THEN IF ~hasattr(self, attr_name)
         THEN setattr(self, attr_name, None)
         ELSE [o |-> self, raised |-> FALSE]
    ELSE IF hasattr(self, attr_name)
         THEN delattr(self, attr_name)
         ELSE [o |-> self, raised |-> FALSE]

\* act.immutability.to_clone: the method is applied to a copy of the
\* instance, which is returned.
immutability_to_clone(method, instance, attr_name) ==
    LET clone == Obj(instance.kind, instance.dict)
        applied == obj_method(method, clone, attr_name)
    IN [instance |-> instance, result |-> applied.o, raised |-> applied.raised]

obj__add__(self, attr_name) == immutability_to_clone("__add__", self, attr_name)
obj__sub__(self, attr_name) == immutability_to_clone("__sub__", self, attr_name)

\* reduce(or_, dicts), for a row of dicts that is not empty
RECURSIVE reduce_or_(_)
reduce_or_(dicts) ==
    IF Len(dicts) = 1 THEN dicts[1]
    ELSE or_(reduce_or_(SubSeq(dicts, 1, Len(dicts) - 1)), dicts[Len(dicts)])

ObjTypeError == Obj("TypeError", <<>>)

\* obj.of(*objects); reduce of no dicts without an initial value raises
\* TypeError.
obj_of(objects) ==
    IF objects = <<>> THEN ObjTypeError
    ELSE obj(reduce_or_([i \in DOMAIN objects |-> dict_of(objects[i])]))

obj__and__(self, other) == obj_of(<<self, other>>)
obj__rand__(self, other) == obj_of(<<other, self>>)

\* left & right: the left operand's __and__ if it is an obj, otherwise the
\* right operand's __rand__ (no other kind here defines `&` with an obj).
And(left, right) ==
    IF left.kind = "obj" THEN obj__and__(left, right)
    ELSE IF right.kind = "obj" THEN obj__rand__(right, left)
    ELSE ObjTypeError

\* ------------------------------------------------------ the obj machine
\* Dicts of the attribute names, in every order of putting them in.
Dicts ==
    {d \in UNION {[1..n -> AttrNames \X AttrValues] : n \in 0..Cardinality(AttrNames)} :
        \A i \in DOMAIN d, j \in DOMAIN d : i # j => d[i][1] # d[j][1]}

Operands_ ==
    {Obj(kind, d) : kind \in {"obj", "MockA", "dict"}, d \in Dicts}
        \cup {Obj("int", <<>>)}

\* The obj o as it is now and as it was before the operation, and what the
\* operation returned.
ObjOp(o, op, operands, attr_name, before, result, raised) ==
    [o |-> o, op |-> op, operands |-> operands, attr_name |-> attr_name,
     before |-> before, result |-> result, raised |-> raised]

ObjInit ==
    /\ \E d \in Dicts : ob = ObjOp(obj(d), "none", <<>>, "", obj(d), void, FALSE)
    /\ chains = Idle /\ last = Idle
    /\ tm = Idle /\ it = Idle /\ rp = Idle /\ br = Idle /\ tr = Idle /\ mh = Idle
    /\ cl = Idle /\ lk = Idle /\ cx = Idle
    /\ mo = Idle /\ dp = Idle /\ nest = Idle

\* o + attr_name
ObjAdd ==
    \E attr_name \in AttrNames \cup ClassAttrs("obj") :
        LET done == obj__add__(ob.o, attr_name)
        IN /\ ob.op = "none"
           /\ ob' = ObjOp(done.instance, "add", <<>>, attr_name, ob.o,
                          done.result, done.raised)

\* o - attr_name
ObjSub ==
    \E attr_name \in AttrNames \cup ClassAttrs("obj") :
        LET done == obj__sub__(ob.o, attr_name)
        IN /\ ob.op = "none"
           /\ ob' = ObjOp(done.instance, "sub", <<>>, attr_name, ob.o,
                          done.result, done.raised)

Made(op, operands, result) ==
    /\ ob.op = "none"
    /\ ob' = ObjOp(ob.o, op, operands, "", ob.o, result, result.kind = "TypeError")

\* obj.of(o, x), obj.of(x, o), obj.of(x) and obj.of()
ObjOf ==
    \E x \in Operands_ :
        \E operands \in {<<ob.o, x>>, <<x, ob.o>>, <<x>>, <<>>} :
            Made("of", operands, obj_of(operands))

\* o & x and x & o
ObjAnd ==
    \E x \in Operands_ :
        \E operands \in {<<ob.o, x>>, <<x, ob.o>>} :
            Made("and", operands, And(operands[1], operands[2]))

ObjNext ==
    /\ UNCHANGED <<chains, last, tm, it, rp, br, tr, mh, cl, lk, cx, mo, dp, nest>>
    /\ \/ ObjAdd
       \/ ObjSub
       \/ ObjOf
       \/ ObjAnd

SpecObj == ObjInit /\ [][ObjNext]_vars

\* C12: `o + a` equals o with a set to None when o lacks a and equals o
\* when o has a; `o - a` equals o without a when o has a and equals o when
\* it lacks a; o itself keeps its attributes; equality of objs does not
\* depend on the order the attributes were given in.
C12_AddAndSub ==
    /\ ob.op \in {"add", "sub"} =>
           LET o == ob.before
               a == ob.attr_name
           IN /\ ~ob.raised
              /\ ob.o = o
              /\ ob.op = "add" =>
                     IF hasattr(o, a)
                     THEN obj__eq__(ob.result, o)
                     ELSE obj__eq__(ob.result, obj(dict_set(o.dict, a, None)))
              /\ ob.op = "sub" =>
                     IF hasattr(o, a)
                     THEN obj__eq__(ob.result, obj(dict_del(o.dict, a)))
                     ELSE obj__eq__(ob.result, o)
    /\ \A d \in Dicts :
           Items(d) = Items(ob.o.dict) => obj__eq__(obj(d), ob.o)

\* Attributes of an object, name by name.
ValueOf(d, key) == (CHOOSE item \in Items(d) : item[1] = key)[2]

\* C13: obj.of(o1, ..., on) and `&` build an obj whose attributes are the
\* union of the attributes of the operands, read from __dict__ or from the
\* mapping itself, the rightmost operand that has a name giving its value;
\* void & x == x & void == obj.of(x), and x & x == x for every obj x.
C13_UnionRightmostWins ==
    /\ (ob.op \in {"of", "and"} /\ ob.operands # <<>>
            /\ (ob.op = "and" => \E i \in DOMAIN ob.operands :
                                     ob.operands[i].kind = "obj")) =>
           LET given == [i \in DOMAIN ob.operands |->
                            IF ob.operands[i].kind = "int" THEN <<>>
                            ELSE ob.operands[i].dict]
               made == ob.result
           IN /\ made.kind = "obj"
              /\ Keys(made.dict) = UNION {Keys(given[i]) : i \in DOMAIN given}
              /\ \A key \in Keys(made.dict) :
                     LET rightmost ==
                             CHOOSE i \in DOMAIN given :
                                 /\ key \in Keys(given[i])
                                 /\ \A j \in DOMAIN given :
                                        key \in Keys(given[j]) => j <= i
                     IN ValueOf(made.dict, key) = ValueOf(given[rightmost], key)
              /\ ob.o = ob.before
    /\ \A x \in Operands_ :
           /\ obj__eq__(And(void, x), And(x, void))
           /\ obj__eq__(And(void, x), obj_of(<<x>>))
    /\ obj__eq__(And(ob.o, ob.o), ob.o)

C13_Witness ==
    /\ ob.op = "and"
    /\ ob.operands[1].kind = "MockA"
    /\ ob.operands[2].kind = "obj"
    /\ Keys(ob.operands[1].dict) = {"a", "b"}
    /\ Keys(ob.operands[2].dict) = {"a"}
    /\ ValueOf(ob.operands[1].dict, "a") # ValueOf(ob.operands[2].dict, "a")
    /\ ValueOf(ob.result.dict, "a") = ValueOf(ob.operands[2].dict, "a")
    /\ ob.result.dict[1][1] = "b"

\* ==================================================================== like
\* act/objects.py.  The objects compared are instances of MockA or of its
\* subclass SubA; they live in a heap and hold, under the names "a" and
\* "b", numbers or other objects of the heap.  Objects of these classes
\* define no __eq__, so `==` between them is identity.
MaxLikeObjects == 3
MaxVaried == 2

IsSubclass(type, of) == type = of \/ (type = "SubA" /\ of = "MockA")

\* imitating == original
Eq(imitating, original) == imitating = original

HasDict(x) == x.kind = "obj"

DictOf(heap, x) == IF HasDict(x) THEN heap[x.id].dict ELSE <<>>

isinstance(heap, imitating, original) ==
    /\ HasDict(imitating)
    /\ IsSubclass(heap[imitating.id].kind, heap[original.id].kind)

\* One call of like under way: its operands, the ids found on the way to
\* it, and the number of the attribute of original it is to compare next
\* (0: the call has just been made).
Frame(imitating, original, ids, at) ==
    [imitating |-> imitating, original |-> original, ids |-> ids, at |-> at]

\* like's condition with the found ids left out of it.
like_guard_forgetting(heap, imitating, original, ids) ==
    /\ HasDict(original)
    /\ isinstance(heap, imitating, original)
    /\ (DictOf(heap, original) = <<>>
            \/ Keys(DictOf(heap, original)) \ Keys(DictOf(heap, imitating)) = {})

\* The part of like's condition before all(...).
like_guard(heap, imitating, original, ids) ==
    /\ HasDict(original)
    /\ isinstance(heap, imitating, original)
    /\ imitating.id \notin ids
    /\ original.id \notin ids
    /\ (DictOf(heap, original) = <<>>
            \/ Keys(DictOf(heap, original)) \ Keys(DictOf(heap, imitating)) = {})

\* -------------------------------------------------------- the like machine
\* stack: the calls of like under way, the innermost last; ret: what the
\* call that has just ended returned; result: what the outermost call
\* returned.
Liking(heap, imitating, original, stack, ret, result, calls) ==
    [heap |-> heap, imitating |-> imitating, original |-> original,
     stack |-> stack, ret |-> ret, result |-> result, calls |-> calls]

\* The objects one of n objects can be; the first MaxVaried of them can be
\* of the subclass and can hold "b" as well.
LikeObjects(id, n) ==
    {Obj(type, a \o b) :
        type \in IF id <= MaxVaried THEN {"MockA", "SubA"} ELSE {"MockA"},
        a \in {<<>>, <<<<"a", IntRef(0)>>>>} \cup {<<<<"a", ObjRef(to)>>>> : to \in 1..n},
        b \in IF id <= MaxVaried THEN {<<>>, <<<<"b", IntRef(0)>>>>} ELSE {<<>>}}

\* The objects of test_recursive_like: a.a = c, c.a = b, b.a = d, d.a = a,
\* with a, b, c, d at 1, 2, 3, 4.
FourCycle ==
    <<Obj("MockA", <<<<"a", ObjRef(3)>>>>), Obj("MockA", <<<<"a", ObjRef(4)>>>>),
      Obj("MockA", <<<<"a", ObjRef(2)>>>>), Obj("MockA", <<<<"a", ObjRef(1)>>>>)>>

\* The heaps of up to `most` objects, and the one of the test.
LikeHeaps(most) ==
    UNION {{heap \in [1..n -> UNION {LikeObjects(id, n) : id \in 1..n}] :
                \A id \in 1..n : heap[id] \in LikeObjects(id, n)} :
               n \in 2..most}
        \cup {FourCycle}

\* like(imitating, original), or like(original)(imitating) of the test
LikeInit ==
    /\ \E heap \in LikeHeaps(MaxLikeObjects) :
       \E imitating \in {ObjRef(2), IntRef(0)}, original \in {ObjRef(1)} :
           lk = Liking(heap, imitating, original,
                       <<Frame(imitating, original, {}, 0)>>, "none", "none", 1)
    /\ chains = Idle /\ last = Idle
    /\ tm = Idle /\ it = Idle /\ rp = Idle /\ br = Idle /\ tr = Idle /\ mh = Idle
    /\ cl = Idle /\ ob = Idle /\ cx = Idle
    /\ mo = Idle /\ dp = Idle /\ nest = Idle

Top == lk.stack[Len(lk.stack)]

Popped == SubSeq(lk.stack, 1, Len(lk.stack) - 1)

Ends(value) ==
    lk' = [lk EXCEPT !.stack = Popped, !.ret = value,
                     !.result = IF Len(lk.stack) = 1 THEN value ELSE "none"]

\* A call just made evaluates `imitating == original or ...` up to all(...).
LikeEnter ==
    /\ lk.stack # <<>> /\ lk.ret = "none" /\ Top.at = 0
    /\ IF Eq(Top.imitating, Top.original)
       THEN Ends("True")
       ELSE IF ~like_guard(lk.heap, Top.imitating, Top.original, Top.ids)
       THEN Ends("False")
       ELSE lk' = [lk EXCEPT !.stack[Len(lk.stack)].at = 1]

\* all(...) takes the next attribute of original and calls like on the two
\* values, or has no attribute left.
LikeAttribute ==
    /\ lk.stack # <<>> /\ lk.ret = "none" /\ Top.at > 0
    /\ LET attributes == DictOf(lk.heap, Top.original)
       IN IF Top.at > Len(attributes)
          THEN Ends("True")
          ELSE lk' = [lk EXCEPT
                   !.calls = @ + 1,
                   !.stack = Append(@, Frame(
                       ValueOf(DictOf(lk.heap, Top.imitating), attributes[Top.at][1]),
                       attributes[Top.at][2],
                       Top.ids \cup {Top.imitating.id, Top.original.id},
                       0))]

\* The call that made the call just ended goes on, or ends as well.
LikeReturn ==
    /\ lk.stack # <<>> /\ lk.ret # "none"
    /\ IF lk.ret = "True"
       THEN lk' = [lk EXCEPT !.ret = "none", !.stack[Len(lk.stack)].at = @ + 1]
       ELSE Ends("False")

LikeNext ==
    /\ UNCHANGED <<chains, last, tm, it, rp, br, tr, mh, cl, ob, cx, mo, dp, nest>>
    /\ \/ LikeEnter
       \/ LikeAttribute
       \/ LikeReturn

SpecLike == LikeInit /\ [][LikeNext]_vars

\* A call of like that is under way goes on.
SpecLikeFair == SpecLike /\ WF_vars(LikeNext)

LikeDone == lk.result # "none"

\* The objects an object holds, and the ones it leads to.
Held_(heap, id) ==
    {heap[id].dict[i][2].id : i \in {j \in DOMAIN heap[id].dict :
                                        heap[id].dict[j][2].kind = "obj"}}

RECURSIVE LeadsTo(_, _, _)
LeadsTo(heap, ids, n) ==
    IF n = 0 THEN ids
    ELSE LeadsTo(heap, ids \cup UNION {Held_(heap, id) : id \in ids}, n - 1)

Acyclic(heap) ==
    \A id \in DOMAIN heap : id \notin LeadsTo(heap, Held_(heap, id), Len(heap))

\* like as the claim defines it, on an acyclic heap.
RECURSIVE LikeByValue(_, _, _)
LikeByValue(heap, imitating, original) ==
    \/ Eq(imitating, original)
    \/ /\ HasDict(original)
       /\ isinstance(heap, imitating, original)
       /\ Keys(DictOf(heap, original)) \subseteq Keys(DictOf(heap, imitating))
       /\ \A name \in Keys(DictOf(heap, original)) :
              LikeByValue(heap, ValueOf(DictOf(heap, imitating), name),
                          ValueOf(DictOf(heap, original), name))

\* C14: on an acyclic attribute graph like(imitating, original) is true
\* exactly when imitating == original, or imitating is an instance of
\* original's type, has every attribute name original has and holds under
\* each of them a value that is like original's; what only imitating has
\* does not matter.
C14_LikeByValue ==
    (LikeDone /\ Acyclic(lk.heap)) =>
        ((lk.result = "True") <=> LikeByValue(lk.heap, lk.imitating, lk.original))

\* A call of like has just been made on two objects that are not equal, one
\* of which was found on the way to the call.
Revisiting ==
    /\ lk.stack # <<>> /\ lk.ret = "none" /\ Top.at = 0
    /\ ~Eq(Top.imitating, Top.original)
    /\ HasDict(Top.imitating) /\ HasDict(Top.original)
    /\ {Top.imitating.id, Top.original.id} \cap Top.ids # {}

\* C15: like terminates on every finite object graph, cycles of attributes
\* included: a comparison of two non-equal objects that comes back to an
\* object already visited on its path yields False and makes no further
\* call, no more calls are under way at once than pairs of objects fit on a
\* path, and like(b)(a) on the cycle a->c->b->d->a is False.
C15_LikeTerminates ==
    /\ <>LikeDone
    /\ [](Len(lk.stack) <= Len(lk.heap) \div 2 + 1)
    /\ [][Revisiting => (lk'.ret = "False" /\ lk'.calls = lk.calls
                            /\ Len(lk'.stack) < Len(lk.stack))]_vars
    /\ []((LikeDone /\ lk.heap = FourCycle /\ lk.imitating = ObjRef(2)
              /\ lk.original = ObjRef(1)) => lk.result = "False")

C15_Witness ==
    /\ LikeDone
    /\ lk.heap = FourCycle
    /\ lk.imitating = ObjRef(2)
    /\ lk.original = ObjRef(1)
    /\ lk.calls = 3
    /\ lk.result = "False"

\* =============================================================== contexting
\* pyhandling/contexting.py.  Every value is a record with its `form`:
\*   "plain"    a value that is no ContextRoot and no callable
\*   "nothing"  the flag `nothing`
\*   "None"     None
\*   "fn"       a callable; what it returns is the record of the call,
\*              "result", with the callable and the arguments it was given
\*   "flags"    a sum of flags, with its points
\*   "contextual", "contextually", "ContextualError"
\*              the forms of ContextRoot, with _value and _context
\*   "TypeError", "AttributeError"  the exception a call ended with
MaxContexts == 3

Plain_(v) == [form |-> "plain", v |-> v]
nothing == [form |-> "nothing"]
NoneValue == [form |-> "None"]
Callable(f) == [form |-> "fn", v |-> f]
Result(f, args) == [form |-> "result", fn |-> f, args |-> args]
Root(form, value, context) == [form |-> form, value |-> value, context |-> context]
Error(type) == [form |-> type]

Forms == {"contextual", "contextually", "ContextualError"}

\* isinstance(x, ContextRoot)
IsContextRoot(x) == x.form \in Forms

IsError(x) == x.form \in {"TypeError", "AttributeError"}

\* _BinaryContextRoot.__init__: type(self)(value, *contexts)
RECURSIVE _BinaryContextRoot(_, _, _)
_BinaryContextRoot(form, value, contexts) ==
    IF Len(contexts) > 1
    THEN Root(form,
              _BinaryContextRoot(form, value, SubSeq(contexts, 1, Len(contexts) - 1)),
              contexts[Len(contexts)])
    ELSE Root(form, value, IF Len(contexts) = 0 THEN nothing ELSE contexts[1])

contextual(value, contexts) == _BinaryContextRoot("contextual", value, contexts)

\* ContextRoot.__iter__
ContextRoot__iter__(self) == <<self.value, self.context>>

\* pyhandling.flags, by what contexting.py and its tests expect of it:
\* pointed(x) is x if x is a flag and a flag pointing to x otherwise; a sum
\* of flags has the points of the first followed by those of the second,
\* `nothing` adding none; +flag is the callable that adds flag to its
\* argument.
points(flag) ==
    IF flag.form = "flags" THEN flag.points
    ELSE IF flag.form = "nothing" THEN <<>>
    ELSE <<flag>>

flag_sum(first, second) ==
    IF points(first) \o points(second) = <<>> THEN nothing
    ELSE [form |-> "flags", points |-> points(first) \o points(second)]

plus_pointed(value) == [form |-> "+flag", flag |-> value]

callable(x) == x.form \in {"fn", "+flag"}

\* action(*args), for a callable
call(action, args) ==
    IF action.form = "+flag" THEN flag_sum(args[1], action.flag)
    ELSE IF action.form = "returning" THEN action.result
    ELSE Result(action.v, args)

\* context_oriented without the swap.
context_oriented_as_given(root_values) == root_values

context_oriented(root_values) ==
    contextual(ContextRoot__iter__(root_values)[2],
               <<ContextRoot__iter__(root_values)[1]>>)

\* contexted without the return in the `contextual` form: a ContextRoot is
\* returned in the form it came in.
contexted_in_its_form(value, when) ==
    LET root == IF IsContextRoot(value) THEN value ELSE contextual(value, <<>>)
    IN Root(root.form, root.value,
            IF callable(when) THEN call(when, <<root.context>>)
            ELSE IF when # NoneValue THEN when
            ELSE root.context)

contexted(value, when) ==
    LET unpacked == ContextRoot__iter__(
            IF IsContextRoot(value) THEN value ELSE contextual(value, <<>>))
    IN contextual(unpacked[1],
                  <<IF callable(when) THEN call(when, <<unpacked[2]>>)
                    ELSE IF when # NoneValue THEN when
                    ELSE unpacked[2]>>)

saving_context(action, value_and_context) ==
    LET unpacked == ContextRoot__iter__(contexted(value_and_context, NoneValue))
    IN contextual(call(action, <<unpacked[1]>>), <<unpacked[2]>>)

to_context(action, value_and_context) ==
    context_oriented(saving_context(
        action,
        context_oriented(contexted(value_and_context, NoneValue))))

\* to_write; a value that is not iterable cannot be unpacked.
to_write(action, value) ==
    IF ~IsContextRoot(value) THEN Error("TypeError")
    ELSE LET stored_value == ContextRoot__iter__(value)[1]
             context == ContextRoot__iter__(value)[2]
         IN contextual(stored_value, <<call(action, <<stored_value, context>>)>>)

to_read(action, value) ==
    IF ~IsContextRoot(value) THEN Error("TypeError")
    ELSE context_oriented(to_write(action, context_oriented(value)))

\* value.value: of the forms only `contextual` has the attribute `value`
\* (contextually has `action`, ContextualError has `error`).
attribute_value(x) ==
    IF x.form = "contextual" THEN x.value ELSE Error("AttributeError")

\* is_metacontextual: what it returned, or that it raised.
is_metacontextual(value) ==
    IF ~IsContextRoot(value) THEN [raised |-> FALSE, value |-> FALSE]
    ELSE IF IsError(attribute_value(value)) THEN [raised |-> TRUE, value |-> FALSE]
    ELSE [raised |-> FALSE, value |-> IsContextRoot(attribute_value(value))]

\* with_reduced_metacontext with the context of the inner root dropped.
with_reduced_metacontext_outer_only(value) ==
    LET meta_root == contextual(ContextRoot__iter__(value)[1],
                                <<ContextRoot__iter__(value)[2]>>)
    IN contexted(attribute_value(meta_root), flag_sum(nothing, meta_root.context))

with_reduced_metacontext(value) ==
    LET meta_root == contextual(ContextRoot__iter__(value)[1],
                                <<ContextRoot__iter__(value)[2]>>)
        root == attribute_value(meta_root)
    IN contexted(root, plus_pointed(meta_root.context))

\* ------------------------------------------------- the contexting machine
PlainValues == {Plain_(v) : v \in Held}

Roots(values) ==
    {Root(form, value, context) :
        form \in Forms, value \in values, context \in PlainValues \cup {nothing}}

\* Values that are no ContextRoot, roots of them, and roots of those roots.
Inputs == PlainValues \cup Roots(PlainValues) \cup Roots(Roots(PlainValues))

Actions == {Callable(f) : f \in Fns}

Contexting(x, op, action, result) ==
    [x |-> x, op |-> op, action |-> action, result |-> result]

ContextingInit ==
    /\ \E x \in Inputs : cx = Contexting(x, "none", NoneValue, NoneValue)
    /\ chains = Idle /\ last = Idle
    /\ tm = Idle /\ it = Idle /\ rp = Idle /\ br = Idle /\ tr = Idle /\ mh = Idle
    /\ cl = Idle /\ ob = Idle /\ lk = Idle
    /\ mo = Idle /\ dp = Idle /\ nest = Idle

Applied(op, action, result) ==
    /\ cx.op = "none"
    /\ cx' = Contexting(cx.x, op, action, result)

\* contexted(x) and contexted(x, when)
Contexted ==
    \E when \in {NoneValue} \cup Actions \cup PlainValues :
        Applied("contexted", when, contexted(cx.x, when))

SavingContext ==
    \E action \in Actions :
        Applied("saving_context", action, saving_context(action, cx.x))

ToContext ==
    \E action \in Actions :
        Applied("to_context", action, to_context(action, cx.x))

ToWrite ==
    \E action \in Actions :
        Applied("to_write", action, to_write(action, cx.x))

ToRead ==
    \E action \in Actions :
        Applied("to_read", action, to_read(action, cx.x))

IsMetacontextual ==
    Applied("is_metacontextual", NoneValue, is_metacontextual(cx.x))

ContextingNext ==
    /\ UNCHANGED <<chains, last, tm, it, rp, br, tr, mh, cl, ob, lk, mo, dp, nest>>
    /\ \/ Contexted
       \/ SavingContext
       \/ ToContext
       \/ ToWrite
       \/ ToRead
       \/ IsMetacontextual

SpecContexting == ContextingInit /\ [][ContextingNext]_vars

\* The main value and the context of x: of a ContextRoot its own, of
\* anything else x and `nothing`.
MainValue(x) == IF IsContextRoot(x) THEN x.value ELSE x
Context(x) == IF IsContextRoot(x) THEN x.context ELSE nothing

\* C16: contexted(x) is always of the form `contextual`, with the main
\* value and the context of x (x itself and `nothing` if x is no
\* ContextRoot), so contexted(contexted(x)) == contexted(x); with `when`
\* passed the context is when(old context) if `when` is callable and `when`
\* otherwise, the main value being the same.
C16_ContextedIsContextual ==
    cx.op = "contexted" =>
        /\ cx.result.form = "contextual"
        /\ cx.result.value = MainValue(cx.x)
        /\ cx.result.context =
               IF cx.action = NoneValue THEN Context(cx.x)
               ELSE IF cx.action.form = "fn"
                    THEN Result(cx.action.v, <<Context(cx.x)>>)
                    ELSE cx.action
        /\ contexted(cx.result, NoneValue) = cx.result
        /\ contexted(contexted(cx.x, NoneValue), NoneValue) = contexted(cx.x, NoneValue)

C16_Witness ==
    /\ cx.op = "contexted"
    /\ cx.x.form = "ContextualError"
    /\ cx.x.value.form = "contextually"
    /\ cx.x.context = Plain_(1)
    /\ cx.action.form = "fn"
    /\ cx.result = Root("contextual", cx.x.value, Result(cx.action.v, <<Plain_(1)>>))

\* C17: saving_context(action)(contextual(v, c)) == contextual(action(v), c)
\* and to_context(action)(contextual(v, c)) == contextual(v, action(c)); the
\* action is given the main value alone in the first and the context alone
\* in the second, and the wrapper given stays as it was.
C17_OneSideActedOn ==
    /\ [](cx.x.form = "contextual" =>
            /\ cx.op = "saving_context" =>
                   cx.result = Root("contextual",
                                    Result(cx.action.v, <<cx.x.value>>),
                                    cx.x.context)
            /\ cx.op = "to_context" =>
                   cx.result = Root("contextual", cx.x.value,
                                    Result(cx.action.v, <<cx.x.context>>)))
    /\ [][cx'.x = cx.x]_vars

C17_Witness ==
    /\ cx.op = "to_context"
    /\ cx.x = Root("contextual", Plain_(0), Plain_(1))
    /\ cx.result.value = Plain_(0)
    /\ cx.result.context.form = "result"
    /\ cx.result.context.args = <<Plain_(1)>>

\* C18: to_write(action)(contextual(v, c)) == contextual(v, action(v, c))
\* and to_read(action)(contextual(v, c)) == contextual(action(v, c), c): the
\* action is given the main value first and the context second in both.
C18_ValueThenContext ==
    cx.x.form = "contextual" =>
        /\ cx.op = "to_write" =>
               cx.result = Root("contextual", cx.x.value,
                                Result(cx.action.v, <<cx.x.value, cx.x.context>>))
        /\ cx.op = "to_read" =>
               cx.result = Root("contextual",
                                Result(cx.action.v, <<cx.x.value, cx.x.context>>),
                                cx.x.context)

\* C20: is_metacontextual(x) returns a boolean for every x: True exactly
\* when x is a ContextRoot whose main value is a ContextRoot, whatever the
\* form of x.
C20_BooleanForEveryInput ==
    cx.op = "is_metacontextual" =>
        /\ ~cx.result.raised
        /\ cx.result.value = (IsContextRoot(cx.x) /\ IsContextRoot(cx.x.value))

\* ------------------------------------------------ the metacontext machine
\* without_metacontext(contextual(v, c1, ..., cn)): the loop of repeating
\* with with_reduced_metacontext as its action and is_metacontextual as its
\* condition.
Reducing(v, contexts, root, reductions, pc) ==
    [v |-> v, contexts |-> contexts, root |-> root, reductions |-> reductions,
     pc |-> pc]

MetacontextInit ==
    /\ \E v \in Values :
       \E contexts \in UNION {[1..n -> {Plain_(c) : c \in Values}] : n \in 0..MaxContexts} :
           cx = Reducing(Plain_(v), contexts, contextual(Plain_(v), contexts), 0,
                         "loop")
    /\ chains = Idle /\ last = Idle
    /\ tm = Idle /\ it = Idle /\ rp = Idle /\ br = Idle /\ tr = Idle /\ mh = Idle
    /\ cl = Idle /\ ob = Idle /\ lk = Idle
    /\ mo = Idle /\ dp = Idle /\ nest = Idle

\* while is_metacontextual(value): value = with_reduced_metacontext(value)
Reduce ==
    /\ cx.pc = "loop"
    /\ is_metacontextual(cx.root).value
    /\ cx' = [cx EXCEPT !.root = with_reduced_metacontext(cx.root),
                        !.reductions = @ + 1]

\* return value
ReturnReduced ==
    /\ cx.pc = "loop"
    /\ ~is_metacontextual(cx.root).value
    /\ cx' = [cx EXCEPT !.pc = "returned"]

MetacontextNext ==
    /\ UNCHANGED <<chains, last, tm, it, rp, br, tr, mh, cl, ob, lk, mo, dp, nest>>
    /\ \/ Reduce
       \/ ReturnReduced

SpecMetacontext == MetacontextInit /\ [][MetacontextNext]_vars

\* The loop of repeating goes on while it can.
SpecMetacontextFair == SpecMetacontext /\ WF_vars(MetacontextNext)

RECURSIVE Levels(_)
Levels(x) == IF IsContextRoot(x) THEN 1 + Levels(x.value) ELSE 0

\* C19: contextual(v, c1, ..., cn) with n >= 2 is
\* contextual(contextual(v, c1, ..., c(n-1)), cn); without_metacontext of it
\* ends after n - 1 reductions with a contextual whose main value is v and
\* whose context is the sum of flags with the points (c1, ..., cn) in this
\* order; every with_reduced_metacontext takes one level of nesting away and
\* sums the two outermost contexts.
C19_MetacontextReduced ==
    /\ <>(cx.pc = "returned")
    /\ [](LET n == Len(cx.contexts)
          IN n >= 2 =>
              /\ cx.reductions = 0 =>
                     /\ cx.root = Root("contextual",
                                       contextual(cx.v, SubSeq(cx.contexts, 1, n - 1)),
                                       cx.contexts[n])
                     /\ Levels(cx.root) = n
              /\ cx.pc = "returned" =>
                     /\ cx.reductions = n - 1
                     /\ cx.root = Root("contextual", cx.v,
                                       [form |-> "flags", points |-> cx.contexts]))
    /\ [][cx'.reductions = cx.reductions + 1 =>
             /\ Levels(cx'.root) = Levels(cx.root) - 1
             /\ cx'.root.value = cx.root.value.value
             /\ cx'.root.context = flag_sum(cx.root.value.context, cx.root.context)]_vars

C19_Witness ==
    /\ cx.pc = "returned"
    /\ Len(cx.contexts) = 3
    /\ cx.reductions = 2
    /\ cx.contexts[1] # cx.contexts[2]
    /\ cx.contexts[2] # cx.contexts[3]
    /\ cx.root.context.form = "flags"
    /\ cx.root.context.points = cx.contexts

\* ============================================================ monads.py
\* The execution contexts `maybe` and `until_error`, of monads.py and of
\* utils.py, over a chain of actions a1, ..., an.
MaxActions == 3

\* monads.py: bad = flag('bad', sign=False); utils.py: Flag('bad', sign=False)
bad == [form |-> "flag", name |-> "bad"]

\* An action that returns `result` whatever it is given, and one that
\* raises `error`
Returning(result) == [form |-> "returning", result |-> result]
Raising(error) == [form |-> "raising", error |-> error]

\* action(value)
act(action, value) ==
    IF action.form = "raising" THEN Raises(action.error)
    ELSE Returns(call(action, <<value>>))

\* How a node of the chain ended, with the arguments its action was
\* called with (none when the action was not called)
Ended(outcome, called) ==
    [raised |-> outcome.raised, value |-> outcome.value, called |-> called]

\* isinstance(x, Exception)
isinstance_Exception(x) == "kind" \in DOMAIN x /\ IsException(x)

\* maybe that looks at the context only.
maybe_of_context_only(action, value) ==
    LET stored_value == ContextRoot__iter__(value)[1]
        context == ContextRoot__iter__(value)[2]
    IN IF context = bad THEN Ended(Returns(value), <<>>)
       ELSE IF act(action, stored_value).raised
       THEN Ended(act(action, stored_value), <<stored_value>>)
       ELSE Ended(Returns(saving_context(action, value)), <<stored_value>>)

\* monads.py: maybe(action, value), a node of discretely(will(maybe))
maybe(action, value) ==
    LET stored_value == ContextRoot__iter__(value)[1]
        context == ContextRoot__iter__(value)[2]
    IN IF stored_value = NoneValue \/ context = bad
       THEN Ended(Returns(value), <<>>)
       ELSE IF act(action, stored_value).raised
       THEN Ended(act(action, stored_value), <<stored_value>>)
       ELSE Ended(Returns(saving_context(action, value)), <<stored_value>>)

\* utils.py: ContextRoot(value, context)
ContextRoot(value, context) == Root("ContextRoot", value, context)

\* utils.py: the node `maybe` maps an action to,
\* root.value >= node |then>> on(is bad, taken(ContextRoot(root.value, bad)),
\*                               else_=ContextRoot |by| root.context)
\* where value >= action is action(value)
utils_maybe(node, root) ==
    IF root.context # bad
    THEN LET done == act(node, root.value)
         IN Ended(IF done.raised THEN done
                  ELSE IF done.value = bad
                  THEN Returns(ContextRoot(root.value, bad))
                  ELSE Returns(ContextRoot(done.value, root.context)),
                  <<root.value>>)
    ELSE Ended(Returns(root), <<>>)

\* pyhandling.flags: pointed(value), and the points of a flag that satisfy
\* isinstance |by| Exception
pointed(value) ==
    IF "form" \in DOMAIN value /\ value.form \in {"flag", "flags", "nothing"}
    THEN value
    ELSE [form |-> "flags", points |-> <<value>>]

that_is_Exception(flag) ==
    LET found == SelectSeq(points(flag), isinstance_Exception)
    IN IF found = <<>> THEN nothing ELSE [form |-> "flags", points |-> found]

\* saving_context(action), of the @partially function saving_context: the
\* function that waits for value_and_context
Partial(action) == [form |-> "partial", of |-> "saving_context", action |-> action]

\* monads.py: until_error(action, value), a node of
\* discretely(will(until_error)); nothing in the `try` calls the action
until_error(action, value) ==
    LET value_ == contexted(value, NoneValue)
    IN IF that_is_Exception(pointed(value_.context)) # nothing
       THEN Ended(Returns(value_), <<>>)
       ELSE Ended(Returns(Partial(action)), <<>>)

\* utils.py: the node `until_error` maps an action to
utils_until_error(node, root) ==
    IF ~isinstance_Exception(root.context)
    THEN LET done == act(node, root.value)
             wrapped == IF done.raised THEN done
                        ELSE Returns(ContextRoot(done.value, root.context))
         IN Ended(rollbackable(wrapped,
                               Returns(ContextRoot(root.value, done.value))),
                  <<root.value>>)
    ELSE Ended(Returns(root), <<>>)

\* --- the chain of nodes, one node a step
MonadActions ==
    {Callable(f) : f \in Fns}
        \cup {Returning(NoneValue), Returning(bad),
              Raising(ValueError), Raising(KeyboardInterrupt)}

ActionSeqs(most) == UNION {[1..n -> MonadActions] : n \in 1..most}

MainValues == {Plain_(0), NoneValue}
MonadContexts == {nothing, Plain_(1), bad, ValueError}

\* trace[1] is the chain's input and trace[k + 1] what node k returned;
\* called lists the calls of the actions; error is what the chain raised
Running(monad, module, actions, trace, called, raised, error) ==
    [monad |-> monad, module |-> module, actions |-> actions,
     trace |-> trace, called |-> called, raised |-> raised, error |-> error]

MonadInit ==
    /\ \E monad \in {"maybe", "until_error"}, module \in {"monads", "utils"},
          actions \in ActionSeqs(MaxActions),
          value \in MainValues, context \in MonadContexts :
          mo = Running(monad, module, actions,
                       <<IF module = "monads" THEN contextual(value, <<context>>)
                         ELSE ContextRoot(value, context)>>,
                       <<>>, FALSE, NoneValue)
    /\ chains = Idle /\ last = Idle /\ tm = Idle /\ it = Idle /\ rp = Idle
    /\ br = Idle /\ tr = Idle /\ mh = Idle /\ cl = Idle /\ ob = Idle
    /\ lk = Idle /\ cx = Idle /\ dp = Idle /\ nest = Idle

MonadDone == mo.raised \/ Len(mo.trace) = Len(mo.actions) + 1

\* The state after the node at hand ended as `ended`
After(ended) ==
    LET node == Len(mo.trace)
        called == mo.called \o [i \in 1..Len(ended.called) |->
                                   [node |-> node, args |-> <<ended.called[i]>>]]
    IN IF ended.raised
       THEN [mo EXCEPT !.called = called, !.raised = TRUE, !.error = ended.value]
       ELSE [mo EXCEPT !.called = called, !.trace = Append(@, ended.value)]

Maybe ==
    /\ mo.monad = "maybe" /\ mo.module = "monads" /\ ~MonadDone
    /\ mo' = After(maybe(mo.actions[Len(mo.trace)], mo.trace[Len(mo.trace)]))

UtilsMaybe ==
    /\ mo.monad = "maybe" /\ mo.module = "utils" /\ ~MonadDone
    /\ mo' = After(utils_maybe(mo.actions[Len(mo.trace)], mo.trace[Len(mo.trace)]))

UntilError ==
    /\ mo.monad = "until_error" /\ mo.module = "monads" /\ ~MonadDone
    /\ mo' = After(until_error(mo.actions[Len(mo.trace)], mo.trace[Len(mo.trace)]))

UtilsUntilError ==
    /\ mo.monad = "until_error" /\ mo.module = "utils" /\ ~MonadDone
    /\ mo' = After(utils_until_error(mo.actions[Len(mo.trace)],
                                     mo.trace[Len(mo.trace)]))

MonadNext ==
    /\ UNCHANGED <<chains, last, tm, it, rp, br, tr, mh, cl, ob, lk, cx, dp, nest>>
    /\ \/ Maybe
       \/ UtilsMaybe
       \/ UntilError
       \/ UtilsUntilError

SpecMonads == MonadInit /\ [][MonadNext]_vars

\* The calls node k made to its action
CallsOf(k) == SelectSeq(mo.called, LAMBDA made : made.node = k)

\* Node k was reached and returned
NodeReturned(k) == k < Len(mo.trace)

\* From node k on nothing is called and the value passes through unchanged
PassedThroughFrom(k) ==
    /\ \A j \in k..Len(mo.trace) : mo.trace[j] = mo.trace[k]
    /\ \A i \in DOMAIN mo.called : mo.called[i].node < k

\* Node k called its action once, with the main value it was given
AppliedToMainValue(k) ==
    CallsOf(k) = <<[node |-> k, args |-> <<mo.trace[k].value>>]>>

\* Node k returned what its action returned, in the context it was given
SavedContext(k) ==
    /\ mo.trace[k + 1].value = call(mo.actions[k], <<mo.trace[k].value>>)
    /\ mo.trace[k + 1].context = mo.trace[k].context

StopsMaybe(value) == value.value = NoneValue \/ value.context = bad

\* As C21 states it of every `maybe`: a None main value or the `bad`
\* context stops the chain, and while neither holds each action is applied
\* to the main value with the context preserved.
C21_MaybeStopsOnNoneOrBad ==
    mo.monad = "maybe" =>
        \A k \in 1..Len(mo.trace) :
            /\ StopsMaybe(mo.trace[k]) => PassedThroughFrom(k)
            /\ ~StopsMaybe(mo.trace[k]) /\ NodeReturned(k) =>
                   AppliedToMainValue(k) /\ SavedContext(k)

\* C21, amended: the `maybe` of monads.py stops on a None main value or on
\* the `bad` context, passing the value and its context through unchanged
\* with no later action called, and otherwise applies each action to the
\* main value and preserves the context; the `maybe` of utils.py stops on
\* the `bad` context only (an action is called on a None main value), and
\* when an action returns `bad` it keeps the main value the action was given
\* and replaces the context by `bad`.
C21_Maybe ==
    mo.monad = "maybe" =>
        \A k \in 1..Len(mo.trace) :
            IF mo.module = "monads"
            THEN /\ StopsMaybe(mo.trace[k]) => PassedThroughFrom(k)
                 /\ ~StopsMaybe(mo.trace[k]) /\ NodeReturned(k) =>
                        AppliedToMainValue(k) /\ SavedContext(k)
            ELSE /\ mo.trace[k].context = bad => PassedThroughFrom(k)
                 /\ mo.trace[k].context # bad /\ NodeReturned(k) =>
                        /\ AppliedToMainValue(k)
                        /\ IF call(mo.actions[k], <<mo.trace[k].value>>) = bad
                           THEN mo.trace[k + 1]
                                    = ContextRoot(mo.trace[k].value, bad)
                           ELSE SavedContext(k)

\* A chain of three actions of monads.py's `maybe` whose second action
\* returned None, so that the third was not called
C21_Witness ==
    /\ mo.monad = "maybe" /\ mo.module = "monads"
    /\ Len(mo.actions) = 3 /\ Len(mo.trace) = 4
    /\ ~StopsMaybe(mo.trace[2]) /\ mo.trace[3].value = NoneValue
    /\ mo.trace[4] = mo.trace[3] /\ Len(mo.called) = 2

\* isinstance(x, ContextRoot), of either module
IsRoot(x) == "value" \in DOMAIN x /\ "context" \in DOMAIN x

\* The context is the error or points to it
Recorded(context, error) ==
    \E i \in DOMAIN points(pointed(context)) :
        points(pointed(context))[i] = error

HoldsException(context) == that_is_Exception(pointed(context)) # nothing

\* What `until_error` is to do at node k, given a value whose context holds
\* no error: call the action k on the main value, and keep the value with
\* the error in the context if it raised an Exception, or return what it
\* returned in the same context if it returned
UntilErrorAt(k) ==
    /\ AppliedToMainValue(k)
    /\ IF mo.actions[k].form = "raising"
       THEN /\ isinstance_Exception(mo.actions[k].error)
            /\ mo.trace[k + 1].value = mo.trace[k].value
            /\ Recorded(mo.trace[k + 1].context, mo.actions[k].error)
       ELSE SavedContext(k)

\* C22: an `until_error` chain does not propagate an Exception an action
\* raises: the result keeps the input of that action with the Exception
\* recorded in its context and no later action is called; when no action
\* raises, every action is applied in turn and the context is the original.
C22_UntilErrorKeepsLastValue ==
    mo.monad = "until_error" =>
        /\ ~(mo.raised /\ isinstance_Exception(mo.error))
        /\ \A k \in 1..Len(mo.trace) : IsRoot(mo.trace[k])
        /\ \A k \in 1..Len(mo.trace) :
               /\ HoldsException(mo.trace[k].context) => PassedThroughFrom(k)
               /\ ~HoldsException(mo.trace[k].context) /\ NodeReturned(k) =>
                      UntilErrorAt(k)

\* The same of utils.py's `until_error` alone
UtilsUntilErrorKeepsLastValue ==
    mo.module = "utils" => C22_UntilErrorKeepsLastValue

\* utils.py's `until_error` stopped at the second of three actions
UtilsUntilErrorStopped ==
    /\ mo.monad = "until_error" /\ mo.module = "utils"
    /\ Len(mo.actions) = 3 /\ Len(mo.trace) = 4
    /\ mo.trace[1].context = nothing
    /\ mo.trace[3] = ContextRoot(mo.trace[2].value, ValueError)
    /\ mo.trace[4] = mo.trace[3] /\ Len(mo.called) = 2

\* ================================================== DelegatingProperty
\* tools.py: DelegatingProperty and the Clock that has one.  A converter is
\* the default lambda value: value (number 0) or one of the test callables.
MaxTicks == 2

Converters == {0} \cup Fns

convert(converter, value) ==
    IF converter = 0 THEN value ELSE apply(converter, <<value>>)

\* DelegatingProperty.__init__
DelegatingProperty(delegated_attribute_name, settable, getting_converter, setting_converter) ==
    [delegated_attribute_name |-> delegated_attribute_name,
     settable |-> settable,
     getting_converter |-> getting_converter,
     setting_converter |-> setting_converter]

\* DelegatingProperty.__get__(instance, owner)
DelegatingProperty__get__(self, instance) ==
    convert(self.getting_converter, instance[self.delegated_attribute_name])

\* How a __set__ ended: with AttributeError raised or not, and the instance
\* after it
WasSet(raised, instance) == [raised |-> raised, instance |-> instance]

\* __set__ that does not look at `settable`.
DelegatingProperty__set__always(self, instance, value) ==
    WasSet(FALSE,
           [instance EXCEPT ![self.delegated_attribute_name] =
                                convert(self.setting_converter, value)])

\* DelegatingProperty.__set__(instance, value)
DelegatingProperty__set__(self, instance, value) ==
    IF ~self.settable THEN WasSet(TRUE, instance)
    ELSE WasSet(FALSE,
                [instance EXCEPT ![self.delegated_attribute_name] =
                                     convert(self.setting_converter, value)])

\* Clock.initial_ticks_to_disability =
\*     DelegatingProperty("_initial_ticks_to_disability")
Clock_initial_ticks_to_disability ==
    DelegatingProperty("_initial_ticks_to_disability", FALSE, 0, 0)

\* test_immutability.py: obj(_some_attribue=value)
Mock(value) == [_some_attribue |-> value]

\* The last operation on the property: a __set__ of `value`, or a __get__
\* that returned `read`; before is the instance it was made on
Delegating(made, given, property, instance, op, value, before, raised, read) ==
    [made |-> made, given |-> given, property |-> property,
     instance |-> instance, op |-> op, value |-> value, before |-> before,
     raised |-> raised, read |-> read]

DelegatingInit ==
    /\ \/ \E value \in Values, settable \in BOOLEAN,
             getting_converter \in Converters, setting_converter \in Converters :
             dp = Delegating("obj", value,
                             DelegatingProperty("_some_attribue", settable,
                                                getting_converter, setting_converter),
                             Mock(value), "none", 0, Mock(value), FALSE, 0)
       \/ \E ticks_to_disability \in 0..MaxTicks :
             dp = Delegating("Clock", ticks_to_disability,
                             Clock_initial_ticks_to_disability,
                             Clock(ticks_to_disability), "none", 0,
                             Clock(ticks_to_disability), FALSE, 0)
    /\ chains = Idle /\ last = Idle /\ tm = Idle /\ it = Idle /\ rp = Idle
    /\ br = Idle /\ tr = Idle /\ mh = Idle /\ cl = Idle /\ ob = Idle
    /\ lk = Idle /\ cx = Idle /\ mo = Idle /\ nest = Idle

\* property.__set__(instance, value)
DelegatingSet ==
    \E value \in Values :
        LET set == DelegatingProperty__set__(dp.property, dp.instance, value)
        IN dp' = [dp EXCEPT !.instance = set.instance, !.op = "set",
                            !.value = value, !.before = dp.instance,
                            !.raised = set.raised, !.read = 0]

\* property.__get__(instance, type(instance))
DelegatingGet ==
    dp' = [dp EXCEPT !.op = "get", !.value = 0, !.before = dp.instance,
                     !.raised = FALSE,
                     !.read = DelegatingProperty__get__(dp.property, dp.instance)]

\* clock.ticks_to_disability = ticks, as the `times` do
SetTicks ==
    /\ dp.made = "Clock"
    /\ \E ticks \in -1..MaxTicks :
           dp' = [dp EXCEPT !.instance.ticks_to_disability = ticks,
                            !.op = "ticks", !.value = ticks,
                            !.before = dp.instance, !.raised = FALSE, !.read = 0]

DelegatingNext ==
    /\ UNCHANGED <<chains, last, tm, it, rp, br, tr, mh, cl, ob, lk, cx, mo, nest>>
    /\ \/ DelegatingSet
       \/ DelegatingGet
       \/ SetTicks

SpecDelegating == DelegatingInit /\ [][DelegatingNext]_vars

\* C23: a __set__ of a property that is not settable raises AttributeError
\* and leaves the instance as it was; a __set__ of a settable one makes the
\* delegated attribute setting_converter(value); a __get__ returns
\* getting_converter of the current delegated attribute; and a Clock's
\* initial_ticks_to_disability stays the tick count it was constructed with.
C23_DelegatingProperty ==
    /\ dp.op = "set" /\ ~dp.property.settable =>
           dp.raised /\ dp.instance = dp.before
    /\ dp.op = "set" /\ dp.property.settable =>
           /\ ~dp.raised
           /\ dp.instance[dp.property.delegated_attribute_name]
                  = convert(dp.property.setting_converter, dp.value)
    /\ dp.op = "get" =>
           /\ dp.instance = dp.before
           /\ dp.read = convert(dp.property.getting_converter,
                                dp.instance[dp.property.delegated_attribute_name])
    /\ dp.made = "Clock" =>
           /\ initial_ticks_to_disability(dp.instance) = dp.given
           /\ DelegatingProperty__get__(dp.property, dp.instance) = dp.given

\* A Clock whose ticks were changed away from the count it was constructed
\* with, and whose property was then read
C23_Witness ==
    /\ dp.made = "Clock" /\ dp.op = "get" /\ dp.read = dp.given
    /\ dp.instance.ticks_to_disability # dp.given

\* A rejected set on an instance of a property that is not settable
RejectedSet ==
    dp.op = "set" /\ dp.raised /\ dp.value # dp.instance[dp.property.delegated_attribute_name]

\* ==================================================== reduced nesting
\* handlers.py: get_collection_with_reduced_nesting, a call of it run one
\* step of its loop at a time, and tools.py: with_opened_items.
MaxNesting == 3
MaxReductions == 3

\* The calls that may be nested in one another before the interpreter
\* raises RecursionError
RecursionLimit == MaxNesting + 2

\* number_of_reductions: an int, or math.inf
Finite(n) == [inf |-> FALSE, n |-> n]
inf == [inf |-> TRUE, n |-> 0]

\* number_of_reductions - 1 and number_of_reductions > 1
Minus1(number) == IF number.inf THEN inf ELSE Finite(number.n - 1)
Above1(number) == number.inf \/ number.n > 1

RECURSIVE Concatenated(_)
Concatenated(seqs) ==
    IF seqs = <<>> THEN <<>> ELSE Head(seqs) \o Concatenated(Tail(seqs))

\* tools.py: with_opened_items(collection)
with_opened_items(collection) ==
    Concatenated([i \in 1..Len(collection) |->
                     IF ~IsIterable(collection[i]) THEN <<collection[i]>>
                     ELSE iterate(collection[i])])

\* The items a collection may hold: callables, strs, and tuples nested up
\* to `depth` levels
Scalars == {Fn(f) : f \in Fns} \cup {Str(<<>>), Str(<<1>>)}

RECURSIVE Nested(_)
Nested(depth) ==
    IF depth = 0 THEN Scalars
    ELSE IF depth = 1
    THEN Scalars \cup {Tuple(<<>>), Tuple(<<Fn(1), Fn(2)>>)}
             \cup {Tuple(<<x>>) : x \in Scalars}
    ELSE Nested(depth - 1)
             \cup {Tuple(<<x>>) : x \in Nested(depth - 1)}
             \cup {Tuple(<<Fn(2), x>>) : x \in Nested(depth - 1) \ Nested(depth - 2)}

\* The collections of one or two items
Collections(depth) ==
    {<<x>> : x \in Nested(depth)}
        \cup {<<x, y>> : x \in Nested(depth), y \in Nested(depth)}

Reductions == {Finite(n) : n \in 0..MaxReductions} \cup {inf}

\* A call at work: `rest` are the items the loop has yet to visit
Call_(rest, reduced_collection, number_of_reductions) ==
    [rest |-> rest, reduced_collection |-> reduced_collection,
     number_of_reductions |-> number_of_reductions]

\* stack holds the calls at work, the innermost last; once done, result is
\* the tuple returned, unless RecursionError was raised
Reduction(collection, number_of_reductions, stack, done, raised, result) ==
    [collection |-> collection, number_of_reductions |-> number_of_reductions,
     stack |-> stack, done |-> done, raised |-> raised, result |-> result]

NestInit ==
    /\ \E collection \in Collections(MaxNesting),
          number_of_reductions \in Reductions :
          nest = Reduction(collection, number_of_reductions,
                           <<Call_(collection, <<>>, number_of_reductions)>>,
                           FALSE, FALSE, <<>>)
    /\ chains = Idle /\ last = Idle /\ tm = Idle /\ it = Idle /\ rp = Idle
    /\ br = Idle /\ tr = Idle /\ mh = Idle /\ cl = Idle /\ ob = Idle
    /\ lk = Idle /\ cx = Idle /\ mo = Idle /\ dp = Idle

Innermost == nest.stack[Len(nest.stack)]

\* The stack with its innermost call having visited one more item, which
\* added `items`
Visited(stack, items) ==
    [stack EXCEPT ![Len(stack)] =
        [@ EXCEPT !.rest = Tail(@),
                  !.reduced_collection = @ \o items]]

\* if not isinstance(item, Iterable): reduced_collection.append(item)
NestAppend ==
    /\ ~nest.done /\ Innermost.rest # <<>>
    /\ ~IsIterable(Head(Innermost.rest))
    /\ nest' = [nest EXCEPT !.stack = Visited(@, <<Head(Innermost.rest)>>)]

\* reduced_collection.extend(item), number_of_reductions > 1 being false
NestExtend ==
    /\ ~nest.done /\ Innermost.rest # <<>>
    /\ IsIterable(Head(Innermost.rest))
    /\ ~Above1(Innermost.number_of_reductions)
    /\ nest' = [nest EXCEPT !.stack = Visited(@, iterate(Head(Innermost.rest)))]

\* get_collection_with_reduced_nesting(item, number_of_reductions - 1)
NestRecurse ==
    /\ ~nest.done /\ Innermost.rest # <<>>
    /\ IsIterable(Head(Innermost.rest))
    /\ Above1(Innermost.number_of_reductions)
    /\ Len(nest.stack) < RecursionLimit
    /\ nest' = [nest EXCEPT !.stack =
                   Append(@, Call_(iterate(Head(Innermost.rest)), <<>>,
                                   Minus1(Innermost.number_of_reductions)))]

\* The same call with the interpreter's stack used up
NestOverflow ==
    /\ ~nest.done /\ Innermost.rest # <<>>
    /\ IsIterable(Head(Innermost.rest))
    /\ Above1(Innermost.number_of_reductions)
    /\ Len(nest.stack) = RecursionLimit
    /\ nest' = [nest EXCEPT !.done = TRUE, !.raised = TRUE]

\* return tuple(reduced_collection), to the call that extends its own
\* reduced_collection with it or to the caller
NestReturn ==
    /\ ~nest.done /\ Innermost.rest = <<>>
    /\ IF Len(nest.stack) = 1
       THEN nest' = [nest EXCEPT !.done = TRUE,
                                 !.result = Innermost.reduced_collection]
       ELSE nest' = [nest EXCEPT !.stack =
                        Visited(SubSeq(@, 1, Len(@) - 1),
                                Innermost.reduced_collection)]

NestNext ==
    /\ UNCHANGED <<chains, last, tm, it, rp, br, tr, mh, cl, ob, lk, cx, mo, dp>>
    /\ \/ NestAppend
       \/ NestExtend
       \/ NestRecurse
       \/ NestOverflow
       \/ NestReturn

SpecNest == NestInit /\ [][NestNext]_vars

\* A collection with one level of its nested iterables opened, and with
\* `levels` of them
OneLevelOpened(collection) ==
    Concatenated([i \in 1..Len(collection) |->
                     IF IsIterable(collection[i]) THEN iterate(collection[i])
                     ELSE <<collection[i]>>])

RECURSIVE Opened(_, _)
Opened(collection, levels) ==
    IF levels = 0 THEN collection
    ELSE Opened(OneLevelOpened(collection), levels - 1)

\* C24: a call with a finite k returns the collection with exactly k levels
\* opened, in order, with k = 1 what with_opened_items returns; a call with
\* the unbounded k returns, and returns a tuple without an iterable item.
C24_OpensExactlyKLevels ==
    nest.done =>
        /\ ~nest.raised
        /\ IF nest.number_of_reductions.inf
           THEN \A i \in DOMAIN nest.result : ~IsIterable(nest.result[i])
           ELSE /\ nest.result = Opened(nest.collection, nest.number_of_reductions.n)
                /\ nest.number_of_reductions.n = 1 =>
                       nest.result = with_opened_items(nest.collection)

\* The collection holds a str, at some level
RECURSIVE HasStr(_)
HasStr(collection) ==
    \E i \in DOMAIN collection :
        \/ collection[i].type = "str"
        \/ collection[i].type = "tuple" /\ HasStr(collection[i].handlers)

\* The same of the calls with k >= 1 on collections without a str in them:
\* the step-by-step call returns what the recursive definition gives
OpensKLevelsOfTuples ==
    nest.done /\ ~HasStr(nest.collection)
            /\ (nest.number_of_reductions.inf \/ nest.number_of_reductions.n >= 1) =>
        /\ ~nest.raised
        /\ IF nest.number_of_reductions.inf
           THEN /\ \A i \in DOMAIN nest.result : ~IsIterable(nest.result[i])
                /\ nest.result = Opened(nest.collection, MaxNesting + 1)
           ELSE /\ nest.result = Opened(nest.collection, nest.number_of_reductions.n)
                /\ nest.result = get_collection_with_reduced_nesting(
                                     nest.collection, nest.number_of_reductions.n)
                /\ nest.number_of_reductions.n = 1 =>
                       nest.result = with_opened_items(nest.collection)

\* With a finite k a call returns also when the collection holds strs
FiniteReductionReturns ==
    nest.done /\ ~nest.number_of_reductions.inf =>
        /\ ~nest.raised
        /\ nest.result = get_collection_with_reduced_nesting(
                             nest.collection, nest.number_of_reductions.n)

\* A call with k = 1 that left an item nested two levels deep a collection
OneLevelOnly ==
    /\ nest.done /\ nest.number_of_reductions = Finite(1)
    /\ \E i \in DOMAIN nest.result : IsIterable(nest.result[i])

====
